---- MODULE Spec2Model ----
(***************************************************************************)
(* The incremental graph state engine of the single-run viewer             *)
(* (static/js/single_qa.js) and the graph preview                          *)
(* (static/js/runs_qa_generation.js).                                      *)
(*                                                                         *)
(* Specifications:                                                         *)
(*   Spec        the viewer's store and highlight overlay under            *)
(*               graph_update and sampled_graph_update events;             *)
(*   SpecAttrs   the store fed records that differ in type and position;   *)
(*   SpecSeed    the store fed records that differ in name and expansion   *)
(*               fields;                                                   *)
(*   SpecFit     the viewport fits of both pages applied to graphs that    *)
(*               relaxation has spread;                                    *)
(*   SpecRadius  both pages fed graphs whose nodes have up to MaxDegree    *)
(*               links of a kind;                                          *)
(*   SpecAlias   both pages fed link records that name their ends under    *)
(*               alias keys;                                               *)
(*   SpecNoId    the store fed node records without an id;                 *)
(*   SpecRelax   the store with the ticks of the simulation and the        *)
(*               deferred viewport callbacks;                              *)
(*   SpecFull    the store under incremental and full updates;             *)
(*   SpecNames   full loads of both pages from lists that repeat names     *)
(*               and ids;                                                  *)
(*   SpecHeal    the store fed records that carry an expansion order;      *)
(*   SpecResolve the resolver of the preview;                              *)
(*   SpecDrag    the simulation under drag gestures, resizes and           *)
(*               redistributions;                                          *)
(*   SpecNonFinite both fits fed coordinates that are not finite;          *)
(*   SpecSequence the expansion sequence shown from expansion_info;        *)
(*   SpecPlace   the initial placement of up to MaxPlaced nodes;           *)
(*   SpecCurrent updates whose expansion_info names a current node;        *)
(*   SpecOrder   a producer whose seed arrives after another node;         *)
(*   SpecRuns    start and stop clicks, their responses and the events     *)
(*               of the runs, in every order the network allows;           *)
(*   SpecBind    links that arrive before their nodes.                     *)
(*                                                                         *)
(* JavaScript values are encoded as follows.                               *)
(*   - a string is the sequence of its characters (<<>> is '');            *)
(*     enumeration-like strings ('normal', 'concept', ...) are one-symbol  *)
(*     sequences, so that every string field has one type;                 *)
(*   - Undef is the value of a string field whose key is absent;           *)
(*   - an optional number is <<>> (absent) or <<n>>.                       *)
(* The fields description and group of a node follow exactly the pattern   *)
(* of type (defaulted with || on creation, copied by Object.assign on      *)
(* merge) and are represented by type.                                     *)
(***************************************************************************)
EXTENDS Integers, Sequences, FiniteSets, TLC

VARIABLES
    nodes,          \* currentGraphData.nodes
    links,          \* currentGraphData.links
    initialEntity,  \* value of the #initial-entity input, trimmed
    nodeEls,        \* the rendered .node-group elements, nodeEls[i] bound to nodes[i]
    linkEls,        \* the rendered .link elements
    lastOp,         \* the handler that ran last (history)
    lastData,       \* the payload of the last graph_update, where logged (history)
    lastMerge,      \* what the last graph_update merged into stored nodes (history)
    lastSampled,    \* the input of the last overlay since the last render (history)
    overlay,        \* "none", "set", "set_then_empty": overlays since the last render (history)
    container,      \* graphContainer.clientWidth and clientHeight
    viewBox,        \* the viewBox attribute of #graph-svg
    zoomTransform,  \* the zoom transform applied to the viewer's g
    preview,        \* the graph preview of runs_qa_generation.js: what drawGraph was
                    \* given and what it built
    fitted,         \* the fits computed for the graphs as they are now shown (history)
    simulation,     \* the force simulation: the nodes it holds, its tick handler
    timeouts,       \* the callbacks that setTimeout has pending
    lastEffects,    \* what the last graph_update did besides the merge (history)
    dragging,       \* the ids of the nodes under a drag gesture
    expansionSequence,  \* the expansion sequence that #expansion-info shows
    randomOffset,   \* the pair (Math.random() - 0.5) * 40 that createPositionedNode
                    \* draws, in whole pixels
    isBuilding,     \* isBuilding
    disabled,       \* the buttons among startBtn and stopBtn that are disabled
    run             \* the construction runs as the network and the server hold them:
                    \* socket events in flight, HTTP requests pending, the run the
                    \* server works on; and (history) whether the run started last
                    \* has ended, whether an event of an earlier run was merged

storeVars == <<nodes, links, initialEntity, nodeEls, linkEls, lastData, lastMerge,
               lastSampled, overlay, expansionSequence, randomOffset>>

viewVars == <<container, viewBox, zoomTransform, preview>>

simVars == <<simulation, timeouts, lastEffects, dragging>>

vars == <<nodes, links, initialEntity, nodeEls, linkEls, lastOp, lastData, lastMerge,
         lastSampled, overlay, container, viewBox, zoomTransform, preview, fitted,
         simulation, timeouts, lastEffects, dragging, expansionSequence,
         randomOffset, isBuilding, disabled, run>>

runVars == <<isBuilding, disabled, run>>

-----------------------------------------------------------------------------
(* Bounds of the model *)

MaxNodes == 2
MaxLinks == 2
MaxBatch == 2
MaxSampled == 1

-----------------------------------------------------------------------------
(* JavaScript values *)

Undef == <<"undefined">>
NoNum == <<>>

Normal == <<"normal">>
Expansion == <<"expansion">>
Current == <<"current">>
Concept == <<"concept">>
Person == <<"person">>
Related == <<"related">>

\* !s for a string-valued field: undefined and '' are falsy
Falsy(s) == s = Undef \/ s = <<>>

\* a || b
Or(a, b) == IF Falsy(a) THEN b ELSE a

\* s.includes(t)
Includes(s, t) ==
    \E i \in 0..(Len(s) - Len(t)) : SubSeq(s, i + 1, i + Len(t)) = t

\* array.find over the indices S of the elements that satisfy the test:
\* the first of them, 0 when there is none
FirstIndex(S) ==
    IF S = {} THEN 0 ELSE CHOOSE i \in S : \A j \in S : i <= j

Range(seq) == {seq[i] : i \in 1..Len(seq)}

-----------------------------------------------------------------------------
(* Layout: initial placement *)

\* the container size createPositionedNode falls back to
ContainerWidth == 1200
ContainerHeight == 800
PolygonRadius == 120

\* round(1000 * cos(2*pi*i/n)) and round(1000 * sin(2*pi*i/n)), 2 <= n <= 6
CosMilli(i, n) ==
    CASE n = 2 -> <<1000, -1000>>[i + 1]
      [] n = 3 -> <<1000, -500, -500>>[i + 1]
      [] n = 4 -> <<1000, 0, -1000, 0>>[i + 1]
      [] n = 5 -> <<1000, 309, -809, -809, 309>>[i + 1]
      [] n = 6 -> <<1000, 500, -500, -1000, -500, 500>>[i + 1]

SinMilli(i, n) ==
    CASE n = 2 -> <<0, 0>>[i + 1]
      [] n = 3 -> <<0, 866, -866>>[i + 1]
      [] n = 4 -> <<0, 1000, 0, -1000>>[i + 1]
      [] n = 5 -> <<0, 951, 588, -588, -951>>[i + 1]
      [] n = 6 -> <<0, 866, 866, 0, -866, -866>>[i + 1]

\* the rings of 7 to 20 nodes, lines 117-120: capacity 6 at least, radius
\* 80 + layer * 100
RingCapacity == 6
RingRadius == 80
RingSpacing == 100

\* the grid of more than 20 nodes, lines 124-126: cells 120 wide at least
\* and 0.866 times as high
MinCellWidth == 120
CellRatioMilli == 866

\* round(1000 * cos(deg)) and round(1000 * sin(deg)) for the angles of the
\* ring slots that the indices 0 to 19 take
CosMilliDeg(deg) ==
    CASE deg = 0 -> 1000 [] deg = 60 -> 500 [] deg = 120 -> -500 [] deg = 150 -> -866
      [] deg = 180 -> -1000 [] deg = 200 -> -940 [] deg = 210 -> -866
      [] deg = 220 -> -766 [] deg = 240 -> -500 [] deg = 255 -> -259
      [] deg = 260 -> -174 [] deg = 270 -> 0 [] deg = 280 -> 174 [] deg = 285 -> 259
      [] deg = 300 -> 500

SinMilliDeg(deg) ==
    CASE deg = 0 -> 0 [] deg = 60 -> 866 [] deg = 120 -> 866 [] deg = 150 -> 500
      [] deg = 180 -> 0 [] deg = 200 -> -342 [] deg = 210 -> -500
      [] deg = 220 -> -643 [] deg = 240 -> -866 [] deg = 255 -> -966
      [] deg = 260 -> -985 [] deg = 270 -> -1000 [] deg = 280 -> -985
      [] deg = 285 -> -966 [] deg = 300 -> -866

\* Math.floor(Math.sqrt(n)) and Math.ceil(Math.sqrt(n))
FloorSqrt(n) == CHOOSE r \in 0..n : r * r <= n /\ n < (r + 1) * (r + 1)
CeilSqrt(n) == CHOOSE r \in 0..n : (r = 0 \/ (r - 1) * (r - 1) < n) /\ n <= r * r

\* createPositionedNode: the position given to index among totalNodes, in
\* whole pixels, for the container as it is, 1200 x 800 standing in for a
\* size of 0: the centre, a regular polygon up to 6 nodes, rings up to 20
\* nodes, and beyond them a grid with the offsets that Math.random drew
CreatePositionedNode(index, totalNodes) ==
    LET containerWidth == IF container.width = 0 THEN ContainerWidth ELSE container.width
        containerHeight == IF container.height = 0 THEN ContainerHeight ELSE container.height
        centerX == containerWidth \div 2
        centerY == containerHeight \div 2
        layer == FloorSqrt(index)
        nodesInLayer == IF layer * 6 > RingCapacity THEN layer * 6 ELSE RingCapacity
        deg == ((index % nodesInLayer) * 360) \div nodesInLayer
        radius == RingRadius + layer * RingSpacing
        gridSize == CeilSqrt(totalNodes) + 2
        smaller == IF containerWidth < containerHeight
                   THEN containerWidth ELSE containerHeight
        cellWidthMilli == IF (smaller * 1000) \div gridSize > MinCellWidth * 1000
                          THEN (smaller * 1000) \div gridSize ELSE MinCellWidth * 1000
        cellHeightMilli == (cellWidthMilli * CellRatioMilli) \div 1000
        row == index \div gridSize
        col == index % gridSize
        offsetXMilli == (row % 2) * (cellWidthMilli \div 2)
    IN  IF totalNodes <= 1
        THEN [x |-> centerX, y |-> centerY]
        ELSE IF totalNodes <= 6
        THEN [x |-> centerX + (CosMilli(index, totalNodes) * PolygonRadius) \div 1000,
              y |-> centerY + (SinMilli(index, totalNodes) * PolygonRadius) \div 1000]
        ELSE IF totalNodes <= 20
        THEN [x |-> centerX + (CosMilliDeg(deg) * radius) \div 1000,
              y |-> centerY + (SinMilliDeg(deg) * radius) \div 1000]
        ELSE [x |-> (((2 * col - gridSize) * cellWidthMilli) \div 2 + offsetXMilli) \div 1000
                    + centerX + randomOffset[1],
              y |-> (((2 * row - gridSize) * cellHeightMilli) \div 2) \div 1000
                    + centerY + randomOffset[2]]

-----------------------------------------------------------------------------
(* Graph store: seed detection and self-healing of the expansion status *)

\* findInitialNode: index into ns of the initial node, 0 for null
FindInitialNode(ns, entity) ==
    IF Len(ns) = 0 THEN 0
    ELSE LET byOrder == FirstIndex({i \in 1..Len(ns) : ns[i].expansion_order = <<0>>})
             byInput == IF entity # <<>>
                        THEN FirstIndex({i \in 1..Len(ns) :
                                 \/ ns[i].name = entity
                                 \/ ns[i].id = entity
                                 \/ Includes(ns[i].name, entity)
                                 \/ Includes(entity, ns[i].name)})
                        ELSE 0
         IN  IF byOrder # 0 THEN byOrder
             ELSE IF byInput # 0 THEN byInput
             ELSE 1

NotMarked(n) == n.expansion_status = Normal \/ Falsy(n.expansion_status)

\* the promotion of the initial node alone, the nodes that carry an order
\* left as they are
EnsureInitialNodeExpansionStatus_SeedOnly(ns, entity) ==
    IF Len(ns) = 0 THEN ns
    ELSE LET init == FindInitialNode(ns, entity)
         IN  IF init # 0 /\ NotMarked(ns[init])
             THEN [ns EXCEPT ![init].expansion_status = Expansion,
                             ![init].expansion_order = <<0>>]
             ELSE ns

\* ensureInitialNodeExpansionStatus
EnsureInitialNodeExpansionStatus(ns, entity) ==
    IF Len(ns) = 0 THEN ns
    ELSE LET init == FindInitialNode(ns, entity)
             promoted == IF init # 0 /\ NotMarked(ns[init])
                         THEN [ns EXCEPT ![init].expansion_status = Expansion,
                                         ![init].expansion_order = <<0>>]
                         ELSE ns
         IN  IF init = 0 THEN ns
             ELSE [i \in 1..Len(promoted) |->
                     IF promoted[i].expansion_order # NoNum
                        /\ promoted[i].expansion_order[1] >= 0
                        /\ NotMarked(promoted[i])
                     THEN [promoted[i] EXCEPT !.expansion_status = Expansion]
                     ELSE promoted[i]]

-----------------------------------------------------------------------------
(* The expansion sequence of #expansion-info *)

\* node.name of an entry of expansion_nodes, undefined when it has none
ExpansionName(node) == IF "name" \in DOMAIN node THEN node.name ELSE Undef

\* lines 978-989: an entry is kept when neither its id nor its name was seen
RECURSIVE UniqueNodesFrom(_, _, _)
UniqueNodesFrom(uniqueNodes, expansion_nodes, k) ==
    IF k > Len(expansion_nodes) THEN uniqueNodes
    ELSE LET node == expansion_nodes[k]
             seenIds == {u.id : u \in Range(uniqueNodes)}
             seenNames == {u.name : u \in Range(uniqueNodes)}
         IN  UniqueNodesFrom(
                 IF node.id \notin seenIds /\ ExpansionName(node) \notin seenNames
                 THEN Append(uniqueNodes, [id |-> node.id, name |-> ExpansionName(node),
                                           order |-> NoNum])
                 ELSE uniqueNodes,
                 expansion_nodes, k + 1)

\* the sequence with no entry for the initial node
UniqueNodes_NoInitial(ns, entity, expansion_nodes) ==
    UniqueNodesFrom(<<>>, expansion_nodes, 1)

\* lines 960-989: uniqueNodes, the initial node first with order -1
UniqueNodes(ns, entity, expansion_nodes) ==
    LET init == FindInitialNode(ns, entity)
    IN  UniqueNodesFrom(IF init # 0
                        THEN <<[id |-> ns[init].id, name |-> ns[init].name,
                                order |-> <<-1>>]>>
                        ELSE <<>>,
                        expansion_nodes, 1)

\* updateExpansionDisplay, lines 956-1012, on the store ns that line 941
\* has healed: the sequence shown, none without expansion nodes
ExpansionSequence(ns, entity, info) ==
    IF Len(info.expansion_nodes) = 0 THEN <<>>
    ELSE UniqueNodes(ns, entity, info.expansion_nodes)

-----------------------------------------------------------------------------
(* Graph store: updateGraph *)

\* data.expansion_info is <<>> (absent) or <<info>>; info.current_node is
\* <<>> (null) or <<node>>.  Lines 528-544: the records of the batch that
\* the expansion sequence names get their status from it.
ApplyExpansionInfo(recs, expansion_info) ==
    IF expansion_info = <<>> \/ Len(expansion_info[1].expansion_nodes) = 0
    THEN recs
    ELSE LET info == expansion_info[1]
             expansionNodeIds == {n.id : n \in Range(info.expansion_nodes)}
             currentNodeId == IF info.current_node # <<>>
                              THEN info.current_node[1].id ELSE Undef
         IN  [i \in 1..Len(recs) |->
                IF recs[i].id \in expansionNodeIds
                THEN IF info.current_node # <<>> /\ recs[i].id = currentNodeId
                     THEN [recs[i] EXCEPT !.expansion_status = Current]
                     ELSE [recs[i] EXCEPT !.expansion_status = Expansion]
                ELSE recs[i]]

\* lines 568-577: the node created for an unseen id
NewNode(rec, index, totalNodes) ==
    LET positionedNode == CreatePositionedNode(index, totalNodes)
    IN  [id |-> rec.id,
         name |-> rec.name,
         type |-> Or(rec.type, Concept),
         x |-> IF rec.x # NoNum THEN rec.x[1] ELSE positionedNode.x,
         y |-> IF rec.y # NoNum THEN rec.y[1] ELSE positionedNode.y,
         expansion_status |-> Or(rec.expansion_status, Normal),
         expansion_order |-> rec.expansion_order]

\* Object.assign(existingNode, node) with the position not restored
MergeExisting_RecordPosition(existingNode, rec) ==
    [id |-> rec.id,
     name |-> IF rec.name # Undef THEN rec.name ELSE existingNode.name,
     type |-> IF rec.type # Undef THEN rec.type ELSE existingNode.type,
     x |-> IF rec.x # NoNum THEN rec.x[1] ELSE existingNode.x,
     y |-> IF rec.y # NoNum THEN rec.y[1] ELSE existingNode.y,
     expansion_status |-> Or(rec.expansion_status, Normal),
     expansion_order |-> rec.expansion_order]

\* lines 583-591: Object.assign(existingNode, node), position restored,
\* expansion fields taken from the record
MergeExisting(existingNode, rec) ==
    [id |-> rec.id,
     name |-> IF rec.name # Undef THEN rec.name ELSE existingNode.name,
     type |-> IF rec.type # Undef THEN rec.type ELSE existingNode.type,
     x |-> existingNode.x,
     y |-> existingNode.y,
     expansion_status |-> Or(rec.expansion_status, Normal),
     expansion_order |-> rec.expansion_order]

\* lines 565-594: the incremental branch; existingNodeIds is computed once,
\* before the loop
RECURSIVE MergeNodesFrom(_, _, _, _)
MergeNodesFrom(ns, recs, k, existingNodeIds) ==
    IF k > Len(recs) THEN ns
    ELSE LET rec == recs[k]
             at == FirstIndex({i \in 1..Len(ns) : ns[i].id = rec.id})
             next == IF rec.id \notin existingNodeIds
                     THEN Append(ns, NewNode(rec, Len(ns), Len(ns) + 1))
                     ELSE IF at # 0
                          THEN [ns EXCEPT ![at] = MergeExisting(ns[at], rec)]
                          ELSE ns
         IN  MergeNodesFrom(next, recs, k + 1, existingNodeIds)

MergeNodes(ns, recs) ==
    MergeNodesFrom(ns, recs, 1, {n.id : n \in Range(ns)})

\* lines 551-562: the non-incremental branch
ReplaceNodes(recs) ==
    [i \in 1..Len(recs) |-> NewNode(recs[i], i - 1, Len(recs))]

\* `${sourceId}-${targetId}-${relation}`; no modelled string holds a '-',
\* so the triple determines the text and the text the triple
LinkId(sourceId, targetId, relation) == <<sourceId, targetId, relation>>

\* lines 600-613: one link record normalised
ProcessLink(link) ==
    LET sourceId == Or(link.source_id, link.source)
        targetId == Or(link.target_id, link.target)
    IN  [source |-> sourceId,
         target |-> targetId,
         source_id |-> sourceId,
         target_id |-> targetId,
         relation |-> link.relation,
         id |-> LinkId(sourceId, targetId, Or(link.relation, Related))]

ProcessLinks(linkRecs) == [i \in 1..Len(linkRecs) |-> ProcessLink(linkRecs[i])]

\* lines 619-624: existingLinkIds is computed once, before the loop
RECURSIVE AddLinksFrom(_, _, _, _)
AddLinksFrom(ls, processed, k, existingLinkIds) ==
    IF k > Len(processed) THEN ls
    ELSE AddLinksFrom(IF processed[k].id \notin existingLinkIds
                      THEN Append(ls, processed[k]) ELSE ls,
                      processed, k + 1, existingLinkIds)

MergeLinks(ls, processed) ==
    AddLinksFrom(ls, processed, 1, {l.id : l \in Range(ls)})

\* The store after updateGraph(data, isIncremental) on store st with the
\* input field holding entity.  data.nodes and data.links are sequences;
\* data.hasNodes and data.hasLinks tell whether the key is present at all.
\* updateExpansionDisplay (line 525) runs ensureInitialNodeExpansionStatus
\* on the store before the merge.
MergedNodes(st, data, isIncremental, entity) ==
    LET before == IF data.expansion_info # <<>>
                  THEN EnsureInitialNodeExpansionStatus(st.nodes, entity)
                  ELSE st.nodes
        recs == ApplyExpansionInfo(data.nodes, data.expansion_info)
    IN  IF ~data.hasNodes THEN before
        ELSE IF isIncremental THEN MergeNodes(before, recs)
        ELSE ReplaceNodes(recs)

MergedLinks(st, data, isIncremental) ==
    IF ~data.hasLinks THEN st.links
    ELSE IF isIncremental THEN MergeLinks(st.links, ProcessLinks(data.links))
    ELSE ProcessLinks(data.links)

UpdateGraphStore(st, data, isIncremental, entity) ==
    [nodes |-> EnsureInitialNodeExpansionStatus(
                   MergedNodes(st, data, isIncremental, entity), entity),
     links |-> MergedLinks(st, data, isIncremental)]

-----------------------------------------------------------------------------
(* Rendering *)

\* getNodeRadius (single_qa.js): 25 + min(2 * connections, 15)
BaseRadius == 25
MaxRadiusIncrement == 15

Min(a, b) == IF a <= b THEN a ELSE b
Max(a, b) == IF a >= b THEN a ELSE b

ConnectionCount(d, ls) ==
    Cardinality({i \in 1..Len(ls) :
        \/ Or(ls[i].source_id, ls[i].source) = d.id
        \/ Or(ls[i].target_id, ls[i].target) = d.id})

\* a radius whose increment is at least, not at most, 15
GetNodeRadius_Max(d, ls) == BaseRadius + Max(ConnectionCount(d, ls) * 2, MaxRadiusIncrement)

GetNodeRadius(d, ls) == BaseRadius + Min(ConnectionCount(d, ls) * 2, MaxRadiusIncrement)

\* getNodeColor
GetNodeColor(d) ==
    IF d.expansion_status = Current THEN "#1e40af"
    ELSE IF d.expansion_status = Expansion THEN "#60a5fa"
    ELSE "#94a3b8"

\* lines 767-780: stroke colour and width by expansion status
NodeStroke(d) ==
    IF d.expansion_status = Current THEN "#1e3a8a"
    ELSE IF d.expansion_status = Expansion THEN "#2563eb"
    ELSE "#6b7280"

NodeStrokeWidth(d) ==
    IF d.expansion_status = Current THEN "4px"
    ELSE IF d.expansion_status = Expansion THEN "3px"
    ELSE "2px"

\* A style property never set on an element
Unset == "unset"

\* a node group created with the class that fitView and resetZoom select
FreshNodeEl_ClassNode ==
    [class |-> "node", r |-> 0, fill |-> Unset, stroke |-> Unset,
     strokeWidth |-> Unset, opacity |-> Unset, filter |-> Unset, sampled |-> FALSE]

\* lines 718-738: a .node-group element as enter().append creates it
FreshNodeEl ==
    [class |-> "node-group", r |-> 0, fill |-> Unset, stroke |-> Unset,
     strokeWidth |-> Unset, opacity |-> Unset, filter |-> Unset, sampled |-> FALSE]

\* lines 757-789: what the render sets on every node group, new or kept
StyleNodeEl(el, d, ls) ==
    [el EXCEPT !.r = GetNodeRadius(d, ls),
               !.fill = GetNodeColor(d),
               !.stroke = NodeStroke(d),
               !.strokeWidth = NodeStrokeWidth(d)]

\* lines 711-741: the data join keyed by d.id.  An element is kept for the
\* first datum of its key; a second element or datum of the same key is
\* removed and entered anew.
KeptByJoin(els, ns, i) ==
    /\ i <= Len(els)
    /\ \A j \in 1..(i - 1) : ns[j].id # ns[i].id

RenderNodes(els, ns, ls) ==
    [i \in 1..Len(ns) |->
        StyleNodeEl(IF KeptByJoin(els, ns, i) THEN els[i] ELSE FreshNodeEl, ns[i], ls)]

\* lines 648-668: the links both of whose ends are stored nodes
IsValidLink(link, ns) ==
    /\ \E n \in Range(ns) : n.id = Or(link.source_id, link.source)
    /\ \E n \in Range(ns) : n.id = Or(link.target_id, link.target)

\* the filter looking for the source node alone
ValidLinks_SourceOnly(ls, ns) ==
    SelectSeq(ls, LAMBDA link : \E n \in Range(ns) : n.id = Or(link.source_id, link.source))

ValidLinks(ls, ns) == SelectSeq(ls, LAMBDA link : IsValidLink(link, ns))

\* lines 671-684: every .link element is removed and created again
FreshLinkEl(link) ==
    [source |-> Or(link.source_id, link.source),
     target |-> Or(link.target_id, link.target),
     id |-> link.id,
     stroke |-> "#64748b", strokeWidth |-> "2.5", opacity |-> "0.8",
     marker |-> "url(#arrowhead)", filter |-> Unset, sampled |-> FALSE]

RenderLinks(ls, ns) ==
    LET valid == ValidLinks(ls, ns)
    IN  [i \in 1..Len(valid) |-> FreshLinkEl(valid[i])]

-----------------------------------------------------------------------------
(* Highlight overlay: highlightSampledGraph *)

\* `${sourceId}-${targetId}`
PairId(sourceId, targetId) == <<sourceId, targetId>>

\* lines 179-183
SampledNodeIds(sampledNodes) ==
    {Or(n.id, n.name) : n \in Range(sampledNodes)} \ {Undef, <<>>}

\* lines 185-194
SampledLinkIds(sampledLinks) ==
    UNION {LET sourceId == Or(l.source_id, l.source)
               targetId == Or(l.target_id, l.target)
           IN  IF ~Falsy(sourceId) /\ ~Falsy(targetId)
               THEN {PairId(sourceId, targetId), PairId(targetId, sourceId)}
               ELSE {} : l \in Range(sampledLinks)}

\* lines 197-210: the sampled pairs plus the pairs of every stored link
\* with an end in the sampled node ids
ConnectedLinkIds(ls, sampledNodes, sampledLinks) ==
    SampledLinkIds(sampledLinks) \cup
    UNION {LET sourceId == Or(l.source_id, l.source)
               targetId == Or(l.target_id, l.target)
           IN  IF sourceId \in SampledNodeIds(sampledNodes)
                  \/ targetId \in SampledNodeIds(sampledNodes)
               THEN {PairId(sourceId, targetId), PairId(targetId, sourceId)}
               ELSE {} : l \in Range(ls)}

\* lines 216-228
ResetNodeEl(el, d) ==
    [el EXCEPT !.fill = GetNodeColor(d), !.stroke = "#6b7280",
               !.strokeWidth = "2px", !.opacity = "1", !.filter = "none",
               !.sampled = FALSE]

\* lines 232-256
HighlightNodeEl(el, d, sampledNodeIds) ==
    IF d.id \in sampledNodeIds \/ d.name \in sampledNodeIds
    THEN [el EXCEPT !.fill = "#3b82f6", !.stroke = "#1d4ed8",
                    !.strokeWidth = "4px", !.opacity = "1",
                    !.filter = "drop-shadow(0 0 8px rgba(59, 130, 246, 0.6))",
                    !.sampled = TRUE]
    ELSE [el EXCEPT !.fill = GetNodeColor(d), !.stroke = "#6b7280",
                    !.strokeWidth = "1px", !.opacity = "0.4", !.filter = "none",
                    !.sampled = FALSE]

\* lines 259-267
ResetLinkEl(el) ==
    [el EXCEPT !.stroke = "#94a3b8", !.strokeWidth = "2", !.opacity = "1",
               !.marker = "url(#arrowhead)", !.filter = "none", !.sampled = FALSE]

\* lines 271-310
HighlightLinkEl(el, connectedLinkIds) ==
    IF PairId(el.source, el.target) \in connectedLinkIds
       \/ PairId(el.target, el.source) \in connectedLinkIds
    THEN [el EXCEPT !.stroke = "#1d4ed8", !.strokeWidth = "4", !.opacity = "1",
                    !.marker = "url(#arrowhead-highlight)",
                    !.filter = "drop-shadow(0 0 4px rgba(29, 78, 216, 0.5))",
                    !.sampled = TRUE]
    ELSE [el EXCEPT !.stroke = "#94a3b8", !.strokeWidth = "1", !.opacity = "0.3",
                    !.marker = "url(#arrowhead)", !.filter = "none",
                    !.sampled = FALSE]

HighlightNodes(els, ns, sampledNodes) ==
    [i \in 1..Len(els) |->
        HighlightNodeEl(ResetNodeEl(els[i], ns[i]), ns[i], SampledNodeIds(sampledNodes))]

HighlightLinks(lels, ls, sampledNodes, sampledLinks) ==
    [i \in 1..Len(lels) |->
        HighlightLinkEl(ResetLinkEl(lels[i]),
                        ConnectedLinkIds(ls, sampledNodes, sampledLinks))]

-----------------------------------------------------------------------------
(* Numbers: a JavaScript number that a division produces is the exact     *)
(* rational <<n, d>>, d > 0, in lowest terms                              *)

RECURSIVE Gcd(_, _)
Gcd(a, b) == IF b = 0 THEN a ELSE Gcd(b, a % b)

Abs(a) == IF a < 0 THEN -a ELSE a

\* the numbers that are not finite: Infinity is 1/0, -Infinity is -1/0 and
\* NaN is 0/0
PosInf == <<1, 0>>
NegInf == <<-1, 0>>
NaN == <<0, 0>>

\* isFinite(a)
IsFinite(a) == a[2] # 0

\* n / d
Rat(n, d) ==
    LET g == Gcd(Abs(n), Abs(d))
    IN  IF n = 0 /\ d = 0 THEN NaN
        ELSE IF d < 0 THEN <<(-n) \div g, (-d) \div g>> ELSE <<n \div g, d \div g>>

RInt(i) == <<i, 1>>
RNeg(a) == <<-a[1], a[2]>>
RAdd(a, b) ==
    IF ~IsFinite(a) /\ ~IsFinite(b) THEN (IF a = b THEN a ELSE NaN)
    ELSE Rat(a[1] * b[2] + b[1] * a[2], a[2] * b[2])
RSub(a, b) == RAdd(a, RNeg(b))
RMul(a, b) == Rat(a[1] * b[1], a[2] * b[2])
RDiv(a, b) == Rat(a[1] * b[2], a[2] * b[1])
RLe(a, b) ==
    IF a = NaN \/ b = NaN THEN FALSE
    ELSE IF ~IsFinite(a) /\ ~IsFinite(b) THEN a[1] <= b[1]
    ELSE a[1] * b[2] <= b[1] * a[2]
RLt(a, b) == RLe(a, b) /\ a # b

\* A coordinate of a stored node is a whole number of pixels or Infinity,
\* which JSON.parse gives for 1e999; Infinity stands in a coordinate as an
\* integer beyond every position of the model, and Num gives the number
Infinity == 1000000
Num(v) == IF v = Infinity THEN PosInf ELSE RInt(v)

\* Math.min, Math.max: NaN when an argument is NaN
RMin(a, b) == IF a = NaN \/ b = NaN THEN NaN ELSE IF RLe(a, b) THEN a ELSE b
RMax(a, b) == IF a = NaN \/ b = NaN THEN NaN ELSE IF RLe(a, b) THEN b ELSE a

SetMin(S) == CHOOSE m \in S : \A o \in S : m <= o
SetMax(S) == CHOOSE m \in S : \A o \in S : m >= o

-----------------------------------------------------------------------------
(* Viewport of the single-run viewer *)

\* padding of adjustViewBox, resetZoom and fitView
Padding == 100

\* d3.zoomIdentity, and translate(x, y).scale(k)
ZoomIdentity == [k |-> RInt(1), x |-> RInt(0), y |-> RInt(0)]

\* initGraph, lines 33-37: `0 0 ${width} ${height}`
InitialViewBox(cont) ==
    [x |-> RInt(0), y |-> RInt(0), width |-> RInt(cont.width), height |-> RInt(cont.height)]

\* a viewBox of the container's size with its corner, not its centre, on
\* the centre of the graph
AdjustViewBox_Corner(ns, ls, cont) ==
    LET minX == SetMin({ns[i].x - GetNodeRadius(ns[i], ls) : i \in 1..Len(ns)})
        maxX == SetMax({ns[i].x + GetNodeRadius(ns[i], ls) : i \in 1..Len(ns)})
        minY == SetMin({ns[i].y - GetNodeRadius(ns[i], ls) : i \in 1..Len(ns)})
        maxY == SetMax({ns[i].y + GetNodeRadius(ns[i], ls) : i \in 1..Len(ns)})
    IN  [x |-> Rat(minX + maxX, 2),
         y |-> Rat(minY + maxY, 2),
         width |-> RInt(cont.width),
         height |-> RInt(cont.height)]

\* Math.min and Math.max over a set of numbers none of which is NaN
RSetMin(S) == CHOOSE m \in S : \A o \in S : RLe(m, o)
RSetMax(S) == CHOOSE m \in S : \A o \in S : RLe(o, m)

\* adjustViewBox, lines 418-452: the viewBox it sets for a non-empty store
AdjustViewBox(ns, ls, cont) ==
    LET radius(i) == RInt(GetNodeRadius(ns[i], ls))
        minX == RSetMin({RSub(Num(ns[i].x), radius(i)) : i \in 1..Len(ns)})
        maxX == RSetMax({RAdd(Num(ns[i].x), radius(i)) : i \in 1..Len(ns)})
        minY == RSetMin({RSub(Num(ns[i].y), radius(i)) : i \in 1..Len(ns)})
        maxY == RSetMax({RAdd(Num(ns[i].y), radius(i)) : i \in 1..Len(ns)})
        graphWidth == RAdd(RSub(maxX, minX), RInt(Padding * 2))
        graphHeight == RAdd(RSub(maxY, minY), RInt(Padding * 2))
        graphCenterX == RDiv(RAdd(minX, maxX), RInt(2))
        graphCenterY == RDiv(RAdd(minY, maxY), RInt(2))
        scale == RMin(RMin(RDiv(RInt(cont.width), graphWidth),
                           RDiv(RInt(cont.height), graphHeight)),
                      RInt(1))
        viewBoxWidth == RMax(graphWidth, RDiv(RInt(cont.width), scale))
        viewBoxHeight == RMax(graphHeight, RDiv(RInt(cont.height), scale))
    IN  [x |-> RSub(graphCenterX, RDiv(viewBoxWidth, RInt(2))),
         y |-> RSub(graphCenterY, RDiv(viewBoxHeight, RInt(2))),
         width |-> viewBoxWidth,
         height |-> viewBoxHeight]

\* The data bound to the elements g.selectAll('.node') selects
NodeSelection(els, ns) ==
    LET sel == {i \in 1..Len(els) : els[i].class = "node"}
    IN  [k \in 1..Cardinality(sel) |->
            ns[CHOOSE i \in sel : Cardinality({j \in sel : j < i}) = k - 1]]

\* the caps on the scale of fitView and of resetZoom
FitViewMaxScale == <<3, 2>>
ResetZoomMaxScale == <<2, 1>>

\* fitView, lines 1136-1155: the transform it applies to a non-empty
\* selection; it applies none when an end of an extent is 0
FitView(sel, cont, current) ==
    LET x0 == SetMin({sel[i].x : i \in 1..Len(sel)})
        x1 == SetMax({sel[i].x : i \in 1..Len(sel)})
        y0 == SetMin({sel[i].y : i \in 1..Len(sel)})
        y1 == SetMax({sel[i].y : i \in 1..Len(sel)})
        graphWidth == Max(x1 - x0, 200) + Padding * 2
        graphHeight == Max(y1 - y0, 200) + Padding * 2
        scale == RMin(RMin(Rat(cont.width, graphWidth), Rat(cont.height, graphHeight)),
                      FitViewMaxScale)
    IN  IF x0 = 0 \/ x1 = 0 \/ y0 = 0 \/ y1 = 0 THEN current
        ELSE [k |-> scale,
              x |-> RSub(Rat(cont.width, 2), RMul(Rat(x0 + x1, 2), scale)),
              y |-> RSub(Rat(cont.height, 2), RMul(Rat(y0 + y1, 2), scale))]

\* resetZoom, lines 1102-1130: the transform it applies to a non-empty
\* selection, whose positions are the translate of the last tick
ResetZoom(sel, cont) ==
    LET x0 == SetMin({sel[i].x : i \in 1..Len(sel)})
        x1 == SetMax({sel[i].x : i \in 1..Len(sel)})
        y0 == SetMin({sel[i].y : i \in 1..Len(sel)})
        y1 == SetMax({sel[i].y : i \in 1..Len(sel)})
        graphWidth == (x1 - x0) + Padding * 2
        graphHeight == (y1 - y0) + Padding * 2
        scale == RMin(RMin(Rat(cont.width, graphWidth), Rat(cont.height, graphHeight)),
                      ResetZoomMaxScale)
    IN  [k |-> scale,
         x |-> RSub(Rat(cont.width, 2), RMul(Rat(x0 + x1, 2), scale)),
         y |-> RSub(Rat(cont.height, 2), RMul(Rat(y0 + y1, 2), scale))]

-----------------------------------------------------------------------------
(* The graph preview of runs_qa_generation.js.  A coordinate of a preview  *)
(* node is <<n>>, or <<>> when it is not a finite number.                 *)

PreviewHeight == 400
PreviewDefaultWidth == 600
PreviewMargin == 50

\* 0.8, the share of the preview a fitted graph takes
PreviewFill == <<4, 5>>

\* the text of a small index
Digit(i) == <<"0", "1", "2", "3", "4", "5", "6", "7", "8", "9">>[i + 1]

\* drawGraph, lines 759-770: the node of entity i (from 0); jitter is the
\* pair (Math.random() - 0.5) * 200 drew for it
PreviewNode(entity, i, width, jitter) ==
    [id |-> Or(Or(entity.name, entity.id), <<"entity_", Digit(i)>>),
     name |-> Or(entity.name, <<"entity", Digit(i)>>),
     originalId |-> entity.id,
     x |-> <<width \div 2 + jitter[1]>>,
     y |-> <<PreviewHeight \div 2 + jitter[2]>>]

PreviewNodes(entities, width, jitter) ==
    [i \in 1..Len(entities) |-> PreviewNode(entities[i], i - 1, width, jitter[i])]

\* nameToId is an object literal (line 786): under a key that no node has
\* set, it yields what it inherits from Object.prototype where the key is
\* the name of a member ('constructor', 'toString', ...), a value that is
\* truthy and is no string
ObjectPrototypeKeys == {<<"constructor">>}
ObjectPrototypeMember == <<"[Object.prototype member]">>

\* lines 786-793: nameToId[key]; a later node overwrites an earlier one
NameToId(pnodes, key) ==
    LET hits == {i \in 1..Len(pnodes) :
                    \/ pnodes[i].id = key
                    \/ pnodes[i].name = key
                    \/ ~Falsy(pnodes[i].originalId) /\ pnodes[i].originalId = key}
    IN  IF hits # {} THEN pnodes[SetMax(hits)].id
        ELSE IF key \in ObjectPrototypeKeys THEN ObjectPrototypeMember
        ELSE Undef

\* lines 812-834: the id a key resolves to, exact match before fuzzy match
ResolveKey(pnodes, key) ==
    LET exact == NameToId(pnodes, key)
        fuzzy == FirstIndex({i \in 1..Len(pnodes) :
                     \/ Includes(pnodes[i].name, key)
                     \/ Includes(key, pnodes[i].name)
                     \/ pnodes[i].id = key
                     \/ pnodes[i].originalId = key})
    IN  IF ~Falsy(exact) THEN exact
        ELSE IF fuzzy # 0 THEN pnodes[fuzzy].id
        ELSE Undef

SourceKey(rel) == Or(Or(Or(Or(rel.source, rel.source_name), rel.head), rel.from), rel.subject)
TargetKey(rel) == Or(Or(Or(Or(rel.target, rel.target_name), rel.tail), rel.to), rel.object)

\* lines 836-845: the link pushed for a resolved relationship
PreviewLink(sourceId, targetId, relation) ==
    [source |-> sourceId, target |-> targetId, source_id |-> sourceId,
     target_id |-> targetId, relation |-> relation,
     id |-> LinkId(sourceId, targetId, relation)]

\* lines 799-848: a relationship becomes a link when both keys are present
\* and resolve to two different nodes
RelResolves(pnodes, rel) ==
    /\ ~Falsy(SourceKey(rel))
    /\ ~Falsy(TargetKey(rel))
    /\ ~Falsy(ResolveKey(pnodes, SourceKey(rel)))
    /\ ~Falsy(ResolveKey(pnodes, TargetKey(rel)))
    /\ ResolveKey(pnodes, SourceKey(rel)) # ResolveKey(pnodes, TargetKey(rel))

ResolvedLinks(pnodes, rels) ==
    LET kept == SelectSeq(rels, LAMBDA rel : RelResolves(pnodes, rel))
    IN  [i \in 1..Len(kept) |->
            PreviewLink(ResolveKey(pnodes, SourceKey(kept[i])),
                        ResolveKey(pnodes, TargetKey(kept[i])),
                        Or(kept[i].relation, Related))]

\* lines 873-885: with no link resolved, consecutive nodes are chained
ChainLinks(pnodes) ==
    [i \in 1..Min(Len(pnodes) - 1, 10) |->
        PreviewLink(pnodes[i].id, pnodes[i + 1].id, Related)]

PreviewLinks(pnodes, rels) ==
    IF Len(ResolvedLinks(pnodes, rels)) = 0 /\ Len(pnodes) > 1
    THEN ChainLinks(pnodes)
    ELSE ResolvedLinks(pnodes, rels)

\* getNodeRadius of the preview, lines 1133-1148
PreviewGetNodeRadius(d, pls) ==
    BaseRadius
    + Min(Cardinality({i \in 1..Len(pls) : pls[i].source = d.id \/ pls[i].target = d.id}) * 2,
          MaxRadiusIncrement)

PreviewRadii(pnodes, pls) ==
    [i \in 1..Len(pnodes) |-> PreviewGetNodeRadius(pnodes[i], pls)]

\* lines 800-832: what the keys of a relationship resolved to, the keys
\* themselves when one of them is missing
Resolution(pnodes, rel) ==
    IF Falsy(SourceKey(rel)) \/ Falsy(TargetKey(rel))
    THEN [sourceKey |-> SourceKey(rel), targetKey |-> TargetKey(rel),
          sourceId |-> Undef, targetId |-> Undef]
    ELSE [sourceKey |-> SourceKey(rel), targetKey |-> TargetKey(rel),
          sourceId |-> ResolveKey(pnodes, SourceKey(rel)),
          targetId |-> ResolveKey(pnodes, TargetKey(rel))]

\* the preview before drawGraph ran
NoPreview ==
    [entities |-> <<>>, relationships |-> <<>>, resolved |-> <<>>,
     nodes |-> <<>>, links |-> <<>>, r |-> <<>>, width |-> PreviewDefaultWidth,
     transform |-> ZoomIdentity]

\* drawGraph(entities, relationships): a new svg, nodes, links and circles;
\* the zoom is a new one
DrawnGraph(entities, rels, width, jitter) ==
    LET pnodes == PreviewNodes(entities, width, jitter)
        pls == PreviewLinks(pnodes, rels)
    IN  [entities |-> entities, relationships |-> rels,
         resolved |-> [i \in 1..Len(rels) |-> Resolution(pnodes, rels[i])],
         nodes |-> pnodes, links |-> pls, r |-> PreviewRadii(pnodes, pls),
         width |-> width, transform |-> ZoomIdentity]

\* fitGraphToView, lines 1074-1117: the transform the timeout applies;
\* none when no x or no y is finite
FitGraphToView(pnodes, width, height, current) ==
    LET xs == {pnodes[i].x[1] : i \in {j \in 1..Len(pnodes) : pnodes[j].x # <<>>}}
        ys == {pnodes[i].y[1] : i \in {j \in 1..Len(pnodes) : pnodes[j].y # <<>>}}
        minX == SetMin(xs)
        maxX == SetMax(xs)
        minY == SetMin(ys)
        maxY == SetMax(ys)
        graphWidth == maxX - minX + PreviewMargin * 2
        graphHeight == maxY - minY + PreviewMargin * 2
        scale == RMin(RMin(RMul(PreviewFill, Rat(width, graphWidth)),
                           RMul(PreviewFill, Rat(height, graphHeight))),
                      RInt(1))
    IN  IF xs = {} \/ ys = {} THEN current
        ELSE [k |-> scale,
              x |-> RSub(Rat(width, 2), RMul(scale, Rat(minX + maxX, 2))),
              y |-> RSub(Rat(height, 2), RMul(scale, Rat(minY + maxY, 2)))]

-----------------------------------------------------------------------------
(* The force simulation and the timers of the single-run viewer.  Pending   *)
(* timeouts that run the same callback are kept as one.                    *)

\* the target energies the viewer gives the simulation: lines 93, 493, 504
InitialAlphaTarget == <<1, 10>>
DragAlphaTarget == <<3, 10>>
RestAlphaTarget == <<0, 1>>

\* initGraph, lines 86-93: a simulation with no node, no link and no tick
\* handler, its target energy 0.1
NewSimulation ==
    [nodes |-> <<>>, links |-> <<>>, onTick |-> FALSE, alphaTarget |-> InitialAlphaTarget]

\* renderCurrentGraph, lines 792-865: simulation.nodes(nodes), a new link
\* force, alpha(0.3).restart() and a tick handler over the elements drawn
RenderedSimulation(sim, ns, ls) ==
    LET validLinks == ValidLinks(ls, ns)
    IN  [sim EXCEPT !.nodes = [i \in 1..Len(ns) |-> ns[i].id],
                    !.links = [i \in 1..Len(validLinks) |-> validLinks[i].id],
                    !.onTick = TRUE]

\* line 867: setTimeout(() => adjustViewBox(), 100)
AdjustViewBoxTimeout == "adjustViewBox"

\* what renderCurrentGraph does besides drawing: lines 815 and 867
RenderEffects == {"restart", "refit"}

-----------------------------------------------------------------------------
(* Inputs *)

Ids == {<<"a">>, <<"d">>}
Entities == {<<>>, <<"d">>}

SeqsUpTo(S, n) == UNION {[1..k -> S] : k \in 0..n}

\* the container of a viewer laid out for the fallback size
DefaultContainer == [width |-> ContainerWidth, height |-> ContainerHeight]

NoSampled == [nodes |-> <<>>, links |-> <<>>]

\* no event in flight, no request pending, no run at the server
NoRun ==
    [socket |-> <<>>, http |-> {}, live |-> FALSE, ended |-> TRUE, staleMerged |-> FALSE]

NoData ==
    [nodes |-> <<>>, hasNodes |-> FALSE, links |-> <<>>, hasLinks |-> FALSE,
     expansion_info |-> <<>>]

NodeRecord(id, name) ==
    [id |-> id, name |-> name, type |-> Undef, expansion_status |-> Undef,
     expansion_order |-> NoNum, x |-> NoNum, y |-> NoNum]

LinkRecord(source, target) ==
    [source |-> source, target |-> target, source_id |-> Undef,
     target_id |-> Undef, relation |-> Undef]

\* the keys of a relationship: the aliases of its two ends, lines 800-801,
\* and relation, line 840
RelationshipKeys ==
    {"source", "target", "source_name", "target_name", "head", "tail", "from",
     "to", "subject", "object", "relation"}

\* a relationship of the preview naming its ends under source and target
Relationship(source, target) ==
    [key \in RelationshipKeys |->
        IF key = "source" THEN source ELSE IF key = "target" THEN target ELSE Undef]

\* node records carrying an id and a name only; the id <<"a">> comes
\* under two names
PlainNodeRecords ==
    {NodeRecord(<<"a">>, <<"d">>), NodeRecord(<<"a">>, <<"d", "m">>),
     NodeRecord(<<"d">>, <<"d", "m">>)}

\* link records naming their ends under source and target: an edge
\* between the two ids and a self-loop
PlainLinkRecords ==
    {LinkRecord(<<"a">>, <<"d">>), LinkRecord(<<"d">>, <<"d">>)}

\* node records that differ in type and in carrying a position of their own
AttrNodeRecords ==
    {[NodeRecord(i, <<"d">>) EXCEPT !.type = a[1], !.x = a[2], !.y = a[2]] :
        i \in Ids, a \in {<<Undef, NoNum>>, <<<<>>, NoNum>>, <<Person, <<0>>>>}}

\* node records that differ in name and in the expansion fields
SeedNodeRecords ==
    {[r EXCEPT !.expansion_status = e[1], !.expansion_order = e[2]] :
        r \in {NodeRecord(<<"a">>, <<"d">>), NodeRecord(<<"d">>, <<"d", "m">>)},
        e \in {<<Undef, NoNum>>, <<Undef, <<0>>>>, <<Undef, <<1>>>>, <<Current, NoNum>>}}

NodesOnly(batches) ==
    {[nodes |-> b, hasNodes |-> TRUE, links |-> <<>>, hasLinks |-> FALSE,
      expansion_info |-> <<>>] : b \in batches}

LinksOnly(batches) ==
    {[nodes |-> <<>>, hasNodes |-> FALSE, links |-> b, hasLinks |-> TRUE,
      expansion_info |-> <<>>] : b \in batches}

\* the graph_update payloads of Spec
GraphUpdates ==
    NodesOnly(SeqsUpTo(PlainNodeRecords, MaxBatch))
    \cup LinksOnly(SeqsUpTo(PlainLinkRecords, MaxBatch))

\* the graph_update payloads of SpecAttrs and of SpecSeed
AttrUpdates == NodesOnly(SeqsUpTo(AttrNodeRecords, MaxBatch))
SeedUpdates == NodesOnly(SeqsUpTo(SeedNodeRecords, MaxBatch))

\* the sampled_graph_update payloads of Spec: nodes by id or by name
SampledNodeRecords ==
    {[id |-> <<"a">>, name |-> Undef], [id |-> Undef, name |-> <<"d", "m">>]}

SampledLinkRecords ==
    {[source |-> <<"a">>, target |-> <<"d">>, source_id |-> Undef, target_id |-> Undef]}

SampledUpdates ==
    {[nodes |-> sn, links |-> sl] : sn \in SeqsUpTo(SampledNodeRecords, MaxSampled),
                                    sl \in SeqsUpTo(SampledLinkRecords, 1)}

-----------------------------------------------------------------------------
(* The viewer as a state machine: one action per handler *)

Init ==
    /\ nodes = <<>>
    /\ links = <<>>
    /\ initialEntity \in Entities
    /\ nodeEls = <<>>
    /\ linkEls = <<>>
    /\ lastOp = "init"
    /\ lastData = NoData
    /\ lastMerge = "none"
    /\ lastSampled = NoSampled
    /\ overlay = "none"
    /\ container = DefaultContainer
    /\ viewBox = InitialViewBox(DefaultContainer)
    /\ zoomTransform = ZoomIdentity
    /\ preview = NoPreview
    /\ fitted = {}
    /\ simulation = NewSimulation
    /\ timeouts = {}
    /\ lastEffects = {}
    /\ dragging = {}
    /\ expansionSequence = <<>>
    /\ randomOffset = <<0, 0>>
    /\ isBuilding = FALSE
    /\ disabled = {"stopBtn"}
    /\ run = NoRun

\* History: "merge_xy" when the batch holds a record for a stored id that
\* carries a position other than the stored one, "merge" when it holds a
\* record for a stored id, "none" otherwise.
MergeKind(ns, recs) ==
    IF \E r \in Range(recs), n \in Range(ns) :
           /\ r.id = n.id
           /\ r.x # NoNum /\ r.y # NoNum
           /\ (r.x[1] # n.x \/ r.y[1] # n.y)
    THEN "merge_xy"
    ELSE IF \E r \in Range(recs) : r.id \in {n.id : n \in Range(ns)}
    THEN "merge"
    ELSE "none"

\* updateGraph(data, isIncremental), which ends with
\* ensureInitialNodeExpansionStatus and renderCurrentGraph
UpdateGraphAs(data, isIncremental, maxNodes, maxLinks) ==
    \E st \in {UpdateGraphStore([nodes |-> nodes, links |-> links], data, isIncremental,
                                initialEntity)} :
        /\ Len(st.nodes) <= maxNodes
        /\ Len(st.links) <= maxLinks
        /\ nodes' = st.nodes
        /\ links' = st.links
        /\ nodeEls' = RenderNodes(nodeEls, st.nodes, st.links)
        /\ linkEls' = RenderLinks(st.links, st.nodes)
        /\ lastOp' = IF isIncremental THEN "graph_update" ELSE "full_update"
        /\ lastMerge' = IF isIncremental THEN MergeKind(nodes, data.nodes) ELSE "none"
        /\ lastSampled' = NoSampled
        /\ overlay' = "none"
        /\ fitted' = fitted \ {"adjustViewBox", "fitView", "resetZoom"}
        /\ simulation' = RenderedSimulation(simulation, st.nodes, st.links)
        /\ timeouts' = timeouts \cup {AdjustViewBoxTimeout}
        /\ lastEffects' = RenderEffects
        /\ expansionSequence' =
               IF data.expansion_info = <<>> THEN expansionSequence
               ELSE ExpansionSequence(EnsureInitialNodeExpansionStatus(nodes, initialEntity),
                                      initialEntity, data.expansion_info[1])
        /\ UNCHANGED <<initialEntity, viewVars, dragging, randomOffset>>

\* socket.on('graph_update'): updateGraph(data, true)
UpdateGraphWithin(data, maxNodes, maxLinks) ==
    UpdateGraphAs(data, TRUE, maxNodes, maxLinks)

UpdateGraph(data) == UpdateGraphWithin(data, MaxNodes, MaxLinks)

\* updateGraph(data): isIncremental takes its default, false
FullUpdateLogged(data) ==
    /\ UpdateGraphAs(data, FALSE, MaxNodes, MaxLinks)
    /\ lastData' = data
    /\ UNCHANGED runVars

GraphUpdate(data) == UpdateGraph(data) /\ lastData' = NoData /\ UNCHANGED runVars

\* the same handler, its payload kept in the history
GraphUpdateLogged(data) == UpdateGraph(data) /\ lastData' = data /\ UNCHANGED runVars

\* socket.on('sampled_graph_update'): highlightSampledGraph
SampledGraphUpdate(data) ==
    /\ nodeEls' = HighlightNodes(nodeEls, nodes, data.nodes)
    /\ linkEls' = HighlightLinks(linkEls, links, data.nodes, data.links)
    /\ lastOp' = "sampled_graph_update"
    /\ lastData' = NoData
    /\ lastMerge' = "none"
    /\ lastSampled' = data
    /\ overlay' = IF data # NoSampled THEN "set"
                  ELSE IF overlay = "set" THEN "set_then_empty"
                  ELSE overlay
    /\ UNCHANGED <<nodes, links, initialEntity, viewVars, fitted, simVars, expansionSequence,
                   randomOffset, runVars>>

\* startBtn click, lines 1284-1306: nothing while a run is building, needs an
\* initial entity, then clearGraph, which leaves the simulation and the
\* timers as they are, and the buttons of a run that is building
StartBuilding ==
    /\ ~isBuilding
    /\ "startBtn" \notin disabled
    /\ initialEntity # <<>>
    /\ isBuilding' = TRUE
    /\ disabled' = {"startBtn"}
    /\ nodes' = <<>>
    /\ links' = <<>>
    /\ nodeEls' = <<>>
    /\ linkEls' = <<>>
    /\ lastOp' = "start"
    /\ lastData' = NoData
    /\ lastMerge' = "none"
    /\ lastSampled' = NoSampled
    /\ overlay' = "none"
    /\ fitted' = fitted \ {"adjustViewBox", "fitView", "resetZoom"}
    /\ UNCHANGED <<initialEntity, viewVars, simVars, expansionSequence, randomOffset>>

\* the click whose request /api/start_building answers without an error:
\* the .then of line 1318 changes nothing
StartClick == StartBuilding /\ UNCHANGED run

\* lines 1251-1253, 1278-1280, 1332-1334 and 1345-1347
NotBuilding ==
    /\ isBuilding' = FALSE
    /\ disabled' = {"stopBtn"}

\* socket.on('building_complete'), data without a qa_result
BuildingCompleteHandler ==
    /\ NotBuilding
    /\ lastOp' = "building_complete"
    /\ lastData' = NoData
    /\ lastMerge' = "none"
    /\ UNCHANGED <<nodes, links, initialEntity, nodeEls, linkEls, lastSampled, overlay,
                   viewVars, fitted, simVars, expansionSequence, randomOffset>>

\* the run that is building completes
BuildingComplete == isBuilding /\ BuildingCompleteHandler /\ UNCHANGED run

\* the user edits the #initial-entity input
EditInitialEntity(e) ==
    /\ e # initialEntity
    /\ initialEntity' = e
    /\ lastOp' = "edit"
    /\ lastData' = NoData
    /\ lastMerge' = "none"
    /\ UNCHANGED <<nodes, links, nodeEls, linkEls, lastSampled, overlay, viewVars, fitted,
                   simVars, expansionSequence, randomOffset, runVars>>

Next ==
    \/ \E data \in GraphUpdates : GraphUpdate(data)
    \/ \E data \in SampledUpdates : SampledGraphUpdate(data)
    \/ StartClick
    \/ BuildingComplete
    \/ \E e \in Entities : EditInitialEntity(e)

Spec == Init /\ [][Next]_vars

\* The viewer fed node records that differ in attributes and position
NextAttrs ==
    \/ \E data \in AttrUpdates : GraphUpdateLogged(data)
    \/ StartClick
    \/ BuildingComplete

SpecAttrs == Init /\ [][NextAttrs]_vars

\* The viewer fed node records that differ in name and expansion fields
NextSeed ==
    \/ \E data \in SeedUpdates : GraphUpdateLogged(data)
    \/ StartClick
    \/ BuildingComplete
    \/ \E e \in Entities : EditInitialEntity(e)

SpecSeed == Init /\ [][NextSeed]_vars

-----------------------------------------------------------------------------
(* The viewport fits applied to drawn graphs: SpecFit *)

MaxFitNodes == 2

\* where relaxation may have taken a node: in and out of a container,
\* left of and above the origin
FitPositions == {<<-400, -300>>, <<600, 400>>, <<2600, 400>>, <<600, 1900>>}

FitContainers == {DefaultContainer, [width |-> 400, height |-> 300]}

FitId(i) == <<"n", Digit(i)>>

\* a full load of node records carrying the positions ps; linked: with a link
\* between the first two
FitUpdate(ps, linked) ==
    [nodes |-> [i \in 1..Len(ps) |->
                   [NodeRecord(FitId(i), FitId(i)) EXCEPT !.x = <<ps[i][1]>>,
                                                          !.y = <<ps[i][2]>>]],
     hasNodes |-> TRUE,
     links |-> IF linked /\ Len(ps) >= 2
               THEN <<LinkRecord(FitId(1), FitId(2))>> ELSE <<>>,
     hasLinks |-> TRUE,
     expansion_info |-> <<>>]

\* the preview of the same entities once relaxation has taken them to ps
FitPreview(ps, linked, width) ==
    LET drawn == DrawnGraph([i \in 1..Len(ps) |-> [name |-> FitId(i), id |-> Undef]],
                            IF linked /\ Len(ps) >= 2
                            THEN <<Relationship(FitId(1), FitId(2))>>
                            ELSE <<>>,
                            width, [i \in 1..Len(ps) |-> <<0, 0>>])
    IN  [drawn EXCEPT !.nodes = [i \in 1..Len(ps) |->
                                    [drawn.nodes[i] EXCEPT !.x = <<ps[i][1]>>,
                                                           !.y = <<ps[i][2]>>]]]

\* Both pages showing a graph that relaxation has spread
InitFit ==
    \E ps \in SeqsUpTo(FitPositions, MaxFitNodes) \ {<<>>}, linked \in BOOLEAN,
       cont \in FitContainers :
        /\ container = cont
        /\ initialEntity = <<>>
        /\ \E st \in {UpdateGraphStore([nodes |-> <<>>, links |-> <<>>],
                                       FitUpdate(ps, linked), TRUE, <<>>)} :
               /\ nodes = st.nodes
               /\ links = st.links
               /\ nodeEls = RenderNodes(<<>>, st.nodes, st.links)
               /\ linkEls = RenderLinks(st.links, st.nodes)
               /\ simulation = RenderedSimulation(NewSimulation, st.nodes, st.links)
        /\ timeouts = {AdjustViewBoxTimeout}
        /\ lastEffects = RenderEffects
        /\ dragging = {}
        /\ expansionSequence = <<>>
        /\ randomOffset = <<0, 0>>
        /\ isBuilding = FALSE
        /\ disabled = {"stopBtn"}
        /\ run = NoRun
        /\ lastOp = "graph_update"
        /\ lastData = NoData
        /\ lastMerge = "none"
        /\ lastSampled = NoSampled
        /\ overlay = "none"
        /\ viewBox = InitialViewBox(cont)
        /\ zoomTransform = ZoomIdentity
        /\ preview = FitPreview(ps, linked, IF cont.width = ContainerWidth
                                            THEN PreviewDefaultWidth ELSE cont.width)
        /\ fitted = {}

\* the tick handler and the timeouts of lines 861, 867 and 1178: adjustViewBox
AdjustViewBoxCall ==
    /\ viewBox' = IF Len(nodes) = 0 THEN viewBox
                  ELSE AdjustViewBox(nodes, links, container)
    /\ lastOp' = "adjustViewBox"
    /\ fitted' = IF Len(nodes) = 0 THEN fitted ELSE fitted \cup {"adjustViewBox"}
    /\ UNCHANGED <<storeVars, runVars, container, zoomTransform, preview, simVars>>

\* the fit-to-view control
FitViewCall ==
    /\ zoomTransform' = IF Len(NodeSelection(nodeEls, nodes)) = 0 THEN zoomTransform
                        ELSE FitView(NodeSelection(nodeEls, nodes), container, zoomTransform)
    /\ lastOp' = "fitView"
    /\ fitted' = IF zoomTransform' = zoomTransform /\ "fitView" \notin fitted THEN fitted
                  ELSE (fitted \ {"resetZoom"}) \cup {"fitView"}
    /\ UNCHANGED <<storeVars, runVars, container, viewBox, preview, simVars>>

\* the reset-zoom control
ResetZoomCall ==
    /\ zoomTransform' = IF Len(NodeSelection(nodeEls, nodes)) = 0 THEN ZoomIdentity
                        ELSE ResetZoom(NodeSelection(nodeEls, nodes), container)
    /\ lastOp' = "resetZoom"
    /\ fitted' = (fitted \ {"fitView"}) \cup {"resetZoom"}
    /\ UNCHANGED <<storeVars, runVars, container, viewBox, preview, simVars>>

\* the timeout of fitGraphToView, set when the preview has a node
FitGraphToViewCall ==
    /\ Len(preview.nodes) > 0
    /\ preview' = [preview EXCEPT !.transform =
                      FitGraphToView(preview.nodes, preview.width, PreviewHeight, @)]
    /\ lastOp' = "fitGraphToView"
    /\ fitted' = fitted \cup {"fitGraphToView"}
    /\ UNCHANGED <<storeVars, runVars, container, viewBox, zoomTransform, simVars>>

\* the reset button of the preview
PreviewResetClick ==
    /\ Len(preview.nodes) > 0
    /\ preview' = [preview EXCEPT !.transform = ZoomIdentity]
    /\ lastOp' = "previewReset"
    /\ fitted' = fitted \ {"fitGraphToView"}
    /\ UNCHANGED <<storeVars, runVars, container, viewBox, zoomTransform, simVars>>

NextFit ==
    \/ AdjustViewBoxCall
    \/ FitViewCall
    \/ ResetZoomCall
    \/ FitGraphToViewCall
    \/ PreviewResetClick

SpecFit == InitFit /\ [][NextFit]_vars

-----------------------------------------------------------------------------
(* Nodes of many links: SpecRadius *)

MaxDegree == 8

\* how many links of one kind an update or a preview carries
RadiusCounts == {0, 1, MaxDegree}

Relation(i) == <<"r", Digit(i)>>

\* a graph_update with the nodes a and d, k1 links from a to d and k2 links
\* from d to itself, under relations of their own
RadiusUpdate(k1, k2) ==
    [nodes |-> <<NodeRecord(<<"a">>, <<"a">>), NodeRecord(<<"d">>, <<"d">>)>>,
     hasNodes |-> TRUE,
     links |-> [i \in 1..k1 |-> [LinkRecord(<<"a">>, <<"d">>) EXCEPT !.relation = Relation(i)]]
               \o [i \in 1..k2 |-> [LinkRecord(<<"d">>, <<"d">>) EXCEPT !.relation = Relation(i)]],
     hasLinks |-> TRUE,
     expansion_info |-> <<>>]

RadiusEntities ==
    <<[name |-> <<"a">>, id |-> Undef], [name |-> <<"d">>, id |-> Undef],
      [name |-> <<"m">>, id |-> Undef]>>

\* k1 relationships from d to a and k2 from d to m
RadiusRelationships(k1, k2) ==
    [i \in 1..k1 |-> Relationship(<<"d">>, <<"a">>)]
    \o [i \in 1..k2 |-> Relationship(<<"d">>, <<"m">>)]

\* showGraphPreview: drawGraph(entities, relationships)
DrawGraph(entities, rels, width, jitter) ==
    /\ preview' = DrawnGraph(entities, rels, width, jitter)
    /\ lastOp' = "drawGraph"
    /\ fitted' = fitted \ {"fitGraphToView"}
    /\ UNCHANGED <<storeVars, runVars, container, viewBox, zoomTransform, simVars>>

\* socket.on('graph_update') for the updates of SpecRadius
RadiusGraphUpdate(data) ==
    /\ UpdateGraphWithin(data, MaxNodes, 2 * MaxDegree)
    /\ lastData' = NoData
    /\ UNCHANGED runVars

NextRadius ==
    \/ \E k1, k2 \in RadiusCounts : RadiusGraphUpdate(RadiusUpdate(k1, k2))
    \/ \E k1, k2 \in RadiusCounts :
           DrawGraph(RadiusEntities, RadiusRelationships(k1, k2), PreviewDefaultWidth,
                     [i \in 1..Len(RadiusEntities) |-> <<0, 0>>])
    \/ StartClick
    \/ BuildingComplete

SpecRadius == Init /\ [][NextRadius]_vars

-----------------------------------------------------------------------------
(* Claims about the store and the overlay, checked under Spec *)

NodeIds(ns) == {n.id : n \in Range(ns)}

\* C1 (identity uniqueness): after any sequence of incremental updates
\* from an empty store, no two nodes of currentGraphData.nodes share an id.
C1_IdentityUnique ==
    \A i, j \in 1..Len(nodes) : nodes[i].id = nodes[j].id => i = j

\* C2 (link validity): every stored link has a source and a target that are
\* ids of stored nodes, and the two differ.
C2_LinksValid ==
    \A l \in Range(links) :
        /\ l.source \in NodeIds(nodes)
        /\ l.target \in NodeIds(nodes)
        /\ l.source # l.target

\* A style as the browser applies it: an opacity never set is 1, a filter
\* never set is none.
Effective(el) ==
    [el EXCEPT !.opacity = IF @ = Unset THEN "1" ELSE @,
               !.filter = IF @ = Unset THEN "none" ELSE @]

\* The elements as a render draws them when no overlay was ever applied
BaselineNodeEls == RenderNodes(<<>>, nodes, links)
BaselineLinkEls == RenderLinks(links, nodes)

\* C6 (highlight reset): the overlay called with a non-empty sampled set and
\* then with empty node and link sets leaves every rendered node and link in
\* its baseline style.
C6_HighlightReset ==
    overlay = "set_then_empty" =>
        /\ \A i \in 1..Len(nodeEls) :
               Effective(nodeEls[i]) = Effective(BaselineNodeEls[i])
        /\ \A i \in 1..Len(linkEls) :
               Effective(linkEls[i]) = Effective(BaselineLinkEls[i])

\* The class the overlay gave a link element, read off what it set
LinkClass(el) ==
    IF el.sampled THEN "sampled"
    ELSE IF el.opacity = "0.3" THEN "other"
    ELSE "connected"

\* a stored node named by the sampled node set, by id or by name
IsSampledNode(n, sampledNodes) ==
    n.id \in SampledNodeIds(sampledNodes) \/ n.name \in SampledNodeIds(sampledNodes)

TouchesSampledNode(el, sampledNodes) ==
    \E n \in Range(nodes) :
        IsSampledNode(n, sampledNodes) /\ (n.id = el.source \/ n.id = el.target)

\* C7 (highlight partition): after an overlay, every rendered link with an
\* end in the sampled node set that is not itself a sampled link is
\* classified connected, not sampled and not other.
C7_HighlightPartition ==
    lastOp = "sampled_graph_update" =>
        \A i \in 1..Len(linkEls) :
            (/\ TouchesSampledNode(linkEls[i], lastSampled.nodes)
             /\ PairId(linkEls[i].source, linkEls[i].target)
                    \notin SampledLinkIds(lastSampled.links))
            => LinkClass(linkEls[i]) = "connected"

-----------------------------------------------------------------------------
(* Claims about the merge, checked under SpecAttrs and SpecSeed *)

Store == [nodes |-> nodes, links |-> links]

\* C3 (merge idempotence): for every reachable store and every batch,
\* updateGraph(B, true) applied twice yields the store it yields applied
\* once: same nodes with the same attributes and positions, same links.
\* Stated of the store an update of B has just produced: B applied once
\* more leaves it as it is.
C3_MergeIdempotent ==
    lastOp = "graph_update" =>
        UpdateGraphStore(Store, lastData, TRUE, initialEntity) = Store

\* C4 (position stability under merge): an incremental update leaves the
\* x and y of every node that was in the store where they were, whatever
\* the batch's record for that node carries.
C4_PositionStable ==
    [][lastOp' = "graph_update" =>
          \A i \in 1..Len(nodes) :
              /\ i <= Len(nodes')
              /\ nodes'[i].id = nodes[i].id
              /\ nodes'[i].x = nodes[i].x
              /\ nodes'[i].y = nodes[i].y]_vars

\* C4's case: the update just handled carried, for a stored node, a record
\* with a position other than the stored one
C4_Witness == lastOp = "graph_update" /\ lastMerge = "merge_xy"

\* no node of ns is marked: none has order 0, none a status other than normal
NoneMarked(ns) ==
    \A n \in Range(ns) : n.expansion_order # <<0>> /\ n.expansion_status = Normal

\* C5 (seed promotion): when the merged node list has no marked node and
\* exactly one node N bears the initial-entity name, N ends the update with
\* expansion_status 'expansion' and expansion_order 0.
C5_SeedPromotion ==
    [][lastOp' = "graph_update" =>
          LET merged == MergedNodes(Store, lastData', TRUE, initialEntity)
          IN  \A i \in 1..Len(merged) :
                  (/\ NoneMarked(merged)
                   /\ merged[i].name = initialEntity
                   /\ \A j \in 1..Len(merged) : merged[j].name = initialEntity => j = i)
                  => /\ nodes'[i].expansion_status = Expansion
                     /\ nodes'[i].expansion_order = <<0>>]_vars

-----------------------------------------------------------------------------
(* Claims about the viewport, checked under SpecFit *)

\* The scale at which an svg of the container's size shows the viewBox vb
\* under preserveAspectRatio xMidYMid meet, and where it shows a point
ViewBoxScale(vb, cont) ==
    RMin(RDiv(RInt(cont.width), vb.width), RDiv(RInt(cont.height), vb.height))

ViewBoxScreenX(vb, cont, u) ==
    RAdd(RMul(ViewBoxScale(vb, cont), RSub(RInt(u), vb.x)),
         RDiv(RSub(RInt(cont.width), RMul(ViewBoxScale(vb, cont), vb.width)), RInt(2)))

ViewBoxScreenY(vb, cont, v) ==
    RAdd(RMul(ViewBoxScale(vb, cont), RSub(RInt(v), vb.y)),
         RDiv(RSub(RInt(cont.height), RMul(ViewBoxScale(vb, cont), vb.height)), RInt(2)))

\* where translate(x, y).scale(k) shows a point
ZoomScreenX(t, u) == RAdd(RMul(t.k, RInt(u)), t.x)
ZoomScreenY(t, v) == RAdd(RMul(t.k, RInt(v)), t.y)

\* every circle of the viewer, centre and rendered radius, is shown inside
\* the container
ViewerCirclesInside ==
    \A i \in 1..Len(nodes) :
        /\ RLe(RInt(0), ViewBoxScreenX(viewBox, container, nodes[i].x - nodeEls[i].r))
        /\ RLe(ViewBoxScreenX(viewBox, container, nodes[i].x + nodeEls[i].r),
               RInt(container.width))
        /\ RLe(RInt(0), ViewBoxScreenY(viewBox, container, nodes[i].y - nodeEls[i].r))
        /\ RLe(ViewBoxScreenY(viewBox, container, nodes[i].y + nodeEls[i].r),
               RInt(container.height))

\* every circle of the preview is shown inside its width x 400 rectangle
PreviewCirclesInside ==
    \A i \in 1..Len(preview.nodes) :
        LET x == preview.nodes[i].x[1]
            y == preview.nodes[i].y[1]
            r == preview.r[i]
        IN  /\ RLe(RInt(0), ZoomScreenX(preview.transform, x - r))
            /\ RLe(ZoomScreenX(preview.transform, x + r), RInt(preview.width))
            /\ RLe(RInt(0), ZoomScreenY(preview.transform, y - r))
            /\ RLe(ZoomScreenY(preview.transform, y + r), RInt(PreviewHeight))

PreviewFinite ==
    \A i \in 1..Len(preview.nodes) : preview.nodes[i].x # <<>> /\ preview.nodes[i].y # <<>>

\* C8 (viewport containment): for a non-empty node set with finite
\* coordinates, the viewBox adjustViewBox sets and the transform
\* fitGraphToView applies show every node's circle, centre plus or minus
\* its rendered radius, inside the container rectangle.
C8_ViewportContainment ==
    /\ ("adjustViewBox" \in fitted /\ Len(nodes) > 0) => ViewerCirclesInside
    /\ ("fitGraphToView" \in fitted /\ Len(preview.nodes) > 0 /\ PreviewFinite)
           => PreviewCirclesInside

\* C8's case: both fits computed for a graph wider or taller than the
\* container, circles of radius 25 and 27 among them
C8_Witness ==
    /\ {"adjustViewBox", "fitGraphToView"} \subseteq fitted
    /\ Len(nodes) = 2 /\ Len(preview.nodes) = 2
    /\ RLt(ViewBoxScale(viewBox, container), RInt(1))
    /\ RLt(preview.transform.k, RInt(1))
    /\ \E i \in 1..Len(nodeEls) : nodeEls[i].r = 27
    /\ \E i \in 1..Len(preview.r) : preview.r[i] = 27

\* C9 (no upscaling): the viewBox adjustViewBox sets shows the graph at a
\* scale of at most 1, and the transforms that fitGraphToView, fitView and
\* resetZoom apply have a scale of at most 1.
C9_NoUpscaling ==
    /\ "adjustViewBox" \in fitted => RLe(ViewBoxScale(viewBox, container), RInt(1))
    /\ "fitGraphToView" \in fitted => RLe(preview.transform.k, RInt(1))
    /\ "fitView" \in fitted => RLe(zoomTransform.k, RInt(1))
    /\ "resetZoom" \in fitted => RLe(zoomTransform.k, RInt(1))
    /\ lastOp \in {"fitView", "resetZoom"} => RLe(zoomTransform.k, RInt(1))

\* C9's case: a graph smaller than its container, where a fit without a cap
\* of 1 would enlarge it, after adjustViewBox, fitGraphToView and resetZoom
\* have run and fitView has just been asked for
C9_Witness ==
    /\ lastOp = "fitView"
    /\ {"adjustViewBox", "fitGraphToView", "resetZoom"} \subseteq fitted
    /\ container = DefaultContainer
    /\ Len(nodes) = 2
    /\ \A i \in 1..Len(nodes) : nodes[i].x = 600 /\ nodes[i].y = 400

-----------------------------------------------------------------------------
(* Claims about the radius, checked under SpecRadius *)

\* the number of the links ls that touch the node n
Degree(n, ls) ==
    Cardinality({i \in 1..Len(ls) : ls[i].source = n.id \/ ls[i].target = n.id})

\* radii rs of the nodes ns under the links ls: a higher degree never has a
\* smaller radius; 25 with no link, 27 with one, at most 40
RadiiFollowDegree(ns, ls, rs) ==
    /\ \A i, j \in 1..Len(ns) :
           Degree(ns[i], ls) < Degree(ns[j], ls) => rs[i] <= rs[j]
    /\ \A i \in 1..Len(ns) :
           /\ Degree(ns[i], ls) = 0 => rs[i] = 25
           /\ Degree(ns[i], ls) = 1 => rs[i] = 27
           /\ rs[i] <= 40

\* C10 (degree-radius monotonicity): in the viewer and in the preview, of
\* two nodes the one with more links touching it has a radius at least as
\* large; a node with no link has radius 25, with one link 27, and no
\* radius exceeds 40.
C10_RadiusMonotone ==
    /\ RadiiFollowDegree(nodes, links, [i \in 1..Len(nodeEls) |-> nodeEls[i].r])
    /\ RadiiFollowDegree(preview.nodes, preview.links, preview.r)

\* C10's case: the viewer shows a node with no link beside one with at
\* least 8, the preview a node with one link beside one with at least 8
C10_Witness ==
    /\ \E i, j \in 1..Len(nodes) :
           /\ Degree(nodes[i], links) = 0
           /\ Degree(nodes[j], links) >= 8
           /\ nodeEls[j].r = 40
    /\ \E i, j \in 1..Len(preview.nodes) :
           /\ Degree(preview.nodes[i], preview.links) = 1
           /\ Degree(preview.nodes[j], preview.links) >= 8
           /\ preview.r[j] = 40

-----------------------------------------------------------------------------
(* Claims about the links of the store, checked under Spec *)

\* C11 (link idempotence): after any sequence of incremental updates, a
\* batch that holds the same edge twice included, no two links of
\* currentGraphData.links have the same derived id, and no two rendered
\* links have.
C11_LinkIdsUnique ==
    /\ \A i, j \in 1..Len(links) : links[i].id = links[j].id => i = j
    /\ \A i, j \in 1..Len(linkEls) : linkEls[i].id = linkEls[j].id => i = j

-----------------------------------------------------------------------------
(* Link records naming their ends under alias keys: SpecAlias *)

SourceAliases == {"source", "source_id", "head", "from", "subject"}
TargetAliases == {"target", "target_id", "tail", "to", "object"}

\* the pairs of keys a record names its ends under: a source alias with its
\* counterpart, with target, or source with a target alias
AliasPairs ==
    {<<"source", "target">>, <<"source_id", "target_id">>, <<"head", "tail">>,
     <<"from", "to">>, <<"subject", "object">>}
    \cup {<<sk, "target">> : sk \in SourceAliases}
    \cup {<<"source", tk>> : tk \in TargetAliases}

\* a link record of a graph_update with every alias key, none supplied
BlankLinkRecord ==
    LinkRecord(Undef, Undef)
    @@ [head |-> Undef, tail |-> Undef, from |-> Undef, to |-> Undef,
        subject |-> Undef, object |-> Undef]

\* a relationship of the preview with every alias key, none supplied
BlankRelationship ==
    Relationship(Undef, Undef) @@ [source_id |-> Undef, target_id |-> Undef]

\* the record that names its source under sourceKey and its target under
\* targetKey
Aliased(blank, sourceKey, sourceValue, targetKey, targetValue) ==
    [blank EXCEPT ![sourceKey] = sourceValue, ![targetKey] = targetValue]

\* graph_update payloads: the nodes a and d with one link from a to d
AliasUpdates ==
    {[nodes |-> <<NodeRecord(<<"a">>, <<"a">>), NodeRecord(<<"d">>, <<"d">>)>>,
      hasNodes |-> TRUE,
      links |-> <<Aliased(BlankLinkRecord, ks[1], <<"a">>, ks[2], <<"d">>)>>,
      hasLinks |-> TRUE,
      expansion_info |-> <<>>] : ks \in AliasPairs}

AliasEntities ==
    <<[name |-> <<"a">>, id |-> Undef], [name |-> <<"d">>, id |-> Undef],
      [name |-> <<"m">>, id |-> Undef]>>

\* relationships of a preview: one from d to a
AliasRelationships ==
    {<<Aliased(BlankRelationship, ks[1], <<"d">>, ks[2], <<"a">>)>> : ks \in AliasPairs}

NextAlias ==
    \/ \E data \in AliasUpdates : GraphUpdateLogged(data)
    \/ \E rels \in AliasRelationships :
           DrawGraph(AliasEntities, rels, PreviewDefaultWidth,
                     [i \in 1..Len(AliasEntities) |-> <<0, 0>>])
    \/ StartClick
    \/ BuildingComplete

SpecAlias == Init /\ [][NextAlias]_vars

\* the end a record supplies under one of the source keys, under one of
\* the target keys
SuppliedSource(rec) ==
    Or(Or(Or(Or(rec.source, rec.source_id), rec.head), rec.from), rec.subject)

SuppliedTarget(rec) ==
    Or(Or(Or(Or(rec.target, rec.target_id), rec.tail), rec.to), rec.object)

\* the record that supplies the same values under source and target
UnderSourceAndTarget(blank, rec) ==
    Aliased(blank, "source", SuppliedSource(rec), "target", SuppliedTarget(rec))

Ends(ls) == [i \in 1..Len(ls) |-> <<ls[i].source, ls[i].target>>]

\* C12 (alias acceptance): a link record that names its source under one of
\* source, source_id, head, from, subject and its target under one of
\* target, target_id, tail, to, object is stored, by the viewer and by the
\* preview, with the source and target ids that the record naming the same
\* values under source and target is stored with.
C12_AliasAcceptance ==
    [][/\ lastOp' = "graph_update" =>
              Ends(links') =
              Ends(MergedLinks(Store,
                       [lastData' EXCEPT !.links =
                           [i \in 1..Len(@) |-> UnderSourceAndTarget(BlankLinkRecord, @[i])]],
                       TRUE))
       /\ lastOp' = "drawGraph" =>
              Ends(preview'.links) =
              Ends(PreviewLinks(preview'.nodes,
                       [i \in 1..Len(preview'.relationships) |->
                           UnderSourceAndTarget(BlankRelationship,
                                                preview'.relationships[i])]))]_vars

-----------------------------------------------------------------------------
(* Node records without an id: SpecNoId *)

\* node records of a graph_update: two with an id, one with the key id absent
NoIdNodeRecords ==
    {NodeRecord(<<"a">>, <<"d">>), NodeRecord(<<"d">>, <<"d", "m">>),
     NodeRecord(Undef, <<"m">>)}

NoIdUpdates == NodesOnly(SeqsUpTo(NoIdNodeRecords, MaxBatch))

NextNoId ==
    \/ \E data \in NoIdUpdates : GraphUpdateLogged(data)
    \/ StartClick
    \/ BuildingComplete
    \/ \E e \in Entities : EditInitialEntity(e)

SpecNoId == Init /\ [][NextNoId]_vars

\* C13 (malformed node rejection): no node of currentGraphData.nodes has an
\* undefined id, and after an update every record of the batch that has an
\* id is in the store under that id with the name it carries.
C13_NoIdRejected ==
    /\ \A n \in Range(nodes) : n.id # Undef
    /\ lastOp = "graph_update" =>
           \A k \in 1..Len(lastData.nodes) :
               lastData.nodes[k].id # Undef =>
                   \E n \in Range(nodes) :
                       n.id = lastData.nodes[k].id /\ n.name = lastData.nodes[k].name

-----------------------------------------------------------------------------
(* Relaxation ticks and deferred viewport callbacks: SpecRelax *)

\* the tick handler of lines 840-862 runs: it moves the elements of the
\* render that installed it and calls adjustViewBox, which reads the store.
\* Where the simulation moves the nodes it holds is not modelled here.
Tick ==
    /\ simulation.onTick
    /\ viewBox' = IF Len(nodes) = 0 THEN viewBox
                  ELSE AdjustViewBox(nodes, links, container)
    /\ lastOp' = "tick"
    /\ fitted' = IF Len(nodes) = 0 THEN fitted ELSE fitted \cup {"adjustViewBox"}
    /\ UNCHANGED <<storeVars, runVars, container, zoomTransform, preview, simVars>>

\* the timeout of line 867 fires: adjustViewBox
TimeoutFires ==
    /\ AdjustViewBoxTimeout \in timeouts
    /\ timeouts' = timeouts \ {AdjustViewBoxTimeout}
    /\ viewBox' = IF Len(nodes) = 0 THEN viewBox
                  ELSE AdjustViewBox(nodes, links, container)
    /\ lastOp' = "timeout"
    /\ fitted' = IF Len(nodes) = 0 THEN fitted ELSE fitted \cup {"adjustViewBox"}
    /\ UNCHANGED <<storeVars, runVars, container, zoomTransform, preview, simulation, lastEffects,
                   dragging>>

\* graph_update payloads: node lists, the empty one among them, and a link
RelaxUpdates ==
    NodesOnly({<<>>, <<NodeRecord(<<"a">>, <<"d">>)>>,
               <<NodeRecord(<<"d">>, <<"d", "m">>)>>,
               <<NodeRecord(<<"a">>, <<"d">>), NodeRecord(<<"d">>, <<"d", "m">>)>>})
    \cup LinksOnly({<<LinkRecord(<<"a">>, <<"d">>)>>})

NextRelax ==
    \/ \E data \in RelaxUpdates : GraphUpdateLogged(data)
    \/ StartClick
    \/ BuildingComplete
    \/ \E e \in Entities : EditInitialEntity(e)
    \/ Tick
    \/ TimeoutFires

SpecRelax == Init /\ [][NextRelax]_vars

\* an update with an empty node list and no links
IsEmptyUpdate(data) ==
    data.hasNodes /\ Len(data.nodes) = 0 /\ ~data.hasLinks /\ data.expansion_info = <<>>

\* C14 (empty update is a no-op): an update whose node list is empty and
\* that carries no links leaves the nodes, their attributes and the links of
\* the store as they were, does not restart the relaxation and schedules no
\* viewport re-fit.
C14_EmptyUpdateNoOp ==
    [][(lastOp' = "graph_update" /\ IsEmptyUpdate(lastData')) =>
          /\ nodes' = nodes
          /\ links' = links
          /\ "restart" \notin lastEffects'
          /\ "refit" \notin lastEffects']_vars

\* C15 (reset discards pending ticks): after clearGraph the store has no
\* node and no link and the simulation holds none of the cleared nodes, and
\* a tick never runs while the simulation holds a node that is not in the
\* store.
C15_ResetDiscardsTicks ==
    /\ lastOp = "start" =>
           Len(nodes) = 0 /\ Len(links) = 0 /\ Len(simulation.nodes) = 0
    /\ lastOp = "tick" => Range(simulation.nodes) \subseteq NodeIds(nodes)

-----------------------------------------------------------------------------
(* Full loads of the store: SpecFull *)

\* payloads with a node list, and with no links field, an empty link list
\* or one link
FullUpdates ==
    {[nodes |-> ns, hasNodes |-> TRUE, links |-> ls[2], hasLinks |-> ls[1],
      expansion_info |-> <<>>] :
        ns \in {<<NodeRecord(<<"a">>, <<"d">>)>>,
                <<NodeRecord(<<"d">>, <<"d", "m">>)>>,
                <<NodeRecord(<<"a">>, <<"d">>), NodeRecord(<<"d">>, <<"d", "m">>)>>},
        ls \in {<<FALSE, <<>>>>, <<TRUE, <<>>>>,
                <<TRUE, <<LinkRecord(<<"a">>, <<"d">>)>>>>,
                <<TRUE, <<LinkRecord(<<"d">>, <<"a">>)>>>>}}

NextFull ==
    \/ \E data \in FullUpdates : GraphUpdateLogged(data)
    \/ \E data \in FullUpdates : FullUpdateLogged(data)
    \/ StartClick
    \/ BuildingComplete

SpecFull == Init /\ [][NextFull]_vars

\* C16 (full replace is wholesale): after updateGraph(data, false) the ids
\* of the stored nodes are those of data.nodes, in order, and the ends of
\* the stored links are those of data.links, none when data has no links
\* field; nothing from before the update survives.
C16_FullReplaceWholesale ==
    lastOp = "full_update" =>
        /\ [i \in 1..Len(nodes) |-> nodes[i].id]
               = [i \in 1..Len(lastData.nodes) |-> lastData.nodes[i].id]
        /\ Ends(links) = Ends(ProcessLinks(lastData.links))

-----------------------------------------------------------------------------
(* Full loads from entity lists: SpecNames *)

\* node records of a full load: an id under two names, a name under two
\* ids, a record with no id
NameNodeRecords ==
    {NodeRecord(<<"a">>, <<"d">>), NodeRecord(<<"a">>, <<"m">>),
     NodeRecord(<<"d">>, <<"d">>), NodeRecord(Undef, <<"d">>)}

\* entities of a preview: a name with and without an id, an id without a
\* name, neither
NameEntities ==
    {[name |-> <<"d">>, id |-> Undef], [name |-> <<"d">>, id |-> <<"a">>],
     [name |-> <<"m">>, id |-> Undef], [name |-> Undef, id |-> <<"a">>],
     [name |-> Undef, id |-> Undef]}

NextNames ==
    \/ \E data \in NodesOnly(SeqsUpTo(NameNodeRecords, MaxBatch)) : FullUpdateLogged(data)
    \/ \E entities \in SeqsUpTo(NameEntities, MaxBatch) :
           DrawGraph(entities, <<>>, PreviewDefaultWidth,
                     [i \in 1..Len(entities) |-> <<0, 0>>])
    \/ StartClick
    \/ BuildingComplete

SpecNames == Init /\ [][NextNames]_vars

\* C17 (node ids are unique after a full load): the node list that
\* updateGraph(data, false) stores and the node list that drawGraph builds
\* hold no two nodes with the same id, whatever names and ids the incoming
\* list carries.
C17_FullLoadIdsUnique ==
    /\ lastOp = "full_update" =>
           \A i, j \in 1..Len(nodes) : nodes[i].id = nodes[j].id => i = j
    /\ \A i, j \in 1..Len(preview.nodes) :
           preview.nodes[i].id = preview.nodes[j].id => i = j

-----------------------------------------------------------------------------
(* Records that carry an expansion order: SpecHeal *)

\* node records that differ in the expansion fields: an order with the
\* status 'normal' or '', a status without an order, neither
HealNodeRecords ==
    {[r EXCEPT !.expansion_status = e[1], !.expansion_order = e[2]] :
        r \in {NodeRecord(<<"a">>, <<"d">>), NodeRecord(<<"d">>, <<"d", "m">>)},
        e \in {<<Undef, NoNum>>, <<Normal, <<0>>>>, <<<<>>, <<1>>>>, <<Current, NoNum>>}}

\* an expansion_info naming node a as an expansion node, and as the current
\* node or not
HealInfos ==
    {[expansion_nodes |-> <<[id |-> <<"a">>]>>, current_node |-> c] :
        c \in {<<>>, <<[id |-> <<"a">>]>>}}

HealUpdates ==
    NodesOnly(SeqsUpTo(HealNodeRecords, MaxBatch))
    \cup {[d EXCEPT !.expansion_info = <<info>>] :
             d \in NodesOnly(SeqsUpTo(HealNodeRecords, 1)), info \in HealInfos}

\* the payloads of the full loads: those of one record at most
HealFullUpdates == {d \in HealUpdates : Len(d.nodes) <= 1}

NextHeal ==
    \/ \E data \in HealUpdates : GraphUpdateLogged(data)
    \/ \E data \in HealFullUpdates : FullUpdateLogged(data)
    \/ StartClick
    \/ BuildingComplete

SpecHeal == Init /\ [][NextHeal]_vars

\* an expansion_order that is a number >= 0
HasOrder(n) == n.expansion_order # NoNum /\ n.expansion_order[1] >= 0

\* C18 (self-healing of the expansion status): after every update, full or
\* incremental, every stored node whose expansion_order is a number >= 0
\* has an expansion_status that is neither 'normal' nor empty.
C18_SelfHealing ==
    lastOp \in {"graph_update", "full_update"} =>
        \A n \in Range(nodes) :
            HasOrder(n) => n.expansion_status # Normal /\ ~Falsy(n.expansion_status)

\* C18's case: an incremental update has merged, into a stored node, a
\* record with the order 1 and the status '', beside a node of order 0, and
\* the node is stored with the status 'expansion'
C18_Witness ==
    /\ lastOp = "graph_update"
    /\ lastMerge = "merge"
    /\ \E k \in 1..Len(lastData.nodes), i, j \in 1..Len(nodes) :
           /\ lastData.nodes[k].expansion_order = <<1>>
           /\ lastData.nodes[k].expansion_status = <<>>
           /\ nodes[i].id = lastData.nodes[k].id
           /\ nodes[i].expansion_order = <<1>>
           /\ nodes[i].expansion_status = Expansion
           /\ nodes[j].expansion_order = <<0>>

-----------------------------------------------------------------------------
(* The resolver of the preview: SpecResolve *)

\* entities of a preview: the name d, with and without an id, a name that
\* contains it, a name apart
ResolveEntities ==
    {[name |-> <<"d">>, id |-> Undef], [name |-> <<"d">>, id |-> <<"a">>],
     [name |-> <<"d", "m">>, id |-> <<"a">>], [name |-> <<"m">>, id |-> Undef]}

\* ends of a relationship: names, an id, a string that contains names, a
\* string no node matches, the name of a member of Object.prototype
ResolveKeys ==
    {<<"d">>, <<"d", "m">>, <<"a">>, <<"m", "d">>, <<"x">>, <<"constructor">>}

NextResolve ==
    \/ \E entities \in SeqsUpTo(ResolveEntities, MaxBatch), sk \in ResolveKeys,
          tk \in {<<"d">>, <<"m">>} :
           DrawGraph(entities, <<Relationship(sk, tk)>>, PreviewDefaultWidth,
                     [i \in 1..Len(entities) |-> <<0, 0>>])
    \/ FitGraphToViewCall
    \/ PreviewResetClick

SpecResolve == Init /\ [][NextResolve]_vars

\* C19 (resolver drop rule in the preview): every link of the list drawGraph
\* hands to the simulation, the chain links included, has a source and a
\* target that are ids of displayed nodes and that differ; a relationship
\* with an end that resolves to no node, or whose ends resolve to one id,
\* gives no link.
C19_ResolverDropRule ==
    /\ \A l \in Range(preview.links) :
           /\ l.source \in NodeIds(preview.nodes)
           /\ l.target \in NodeIds(preview.nodes)
           /\ l.source # l.target
    /\ \A i \in 1..Len(preview.resolved) :
           (\/ preview.resolved[i].sourceId \notin NodeIds(preview.nodes)
            \/ preview.resolved[i].targetId \notin NodeIds(preview.nodes)
            \/ preview.resolved[i].sourceId = preview.resolved[i].targetId)
           => \A l \in Range(preview.links) :
                  <<l.source, l.target>> # <<preview.resolved[i].sourceId,
                                             preview.resolved[i].targetId>>

\* the nodes that carry key as id, name or original id
Carriers(pnodes, key) ==
    {i \in 1..Len(pnodes) :
        pnodes[i].id = key \/ pnodes[i].name = key \/ pnodes[i].originalId = key}

\* the nodes whose name contains key or is contained in it
Containing(pnodes, key) ==
    {i \in 1..Len(pnodes) : Includes(pnodes[i].name, key) \/ Includes(key, pnodes[i].name)}

\* exact before fuzzy: what key is to resolve to
ResolvesExactFirst(pnodes, key, resolvedId) ==
    IF Carriers(pnodes, key) # {}
    THEN \E i \in Carriers(pnodes, key) : resolvedId = pnodes[i].id
    ELSE IF Containing(pnodes, key) # {}
    THEN resolvedId = pnodes[FirstIndex(Containing(pnodes, key))].id
    ELSE Falsy(resolvedId)

\* C20 (exact before fuzzy): an end equal to a node's id, name or original
\* id resolves to the id of a node that carries it; an end that no node
\* carries resolves to the first node, in list order, whose name contains
\* it or is contained in it, and to none when there is no such node.
C20_ExactBeforeFuzzy ==
    \A i \in 1..Len(preview.resolved) :
        /\ ResolvesExactFirst(preview.nodes, preview.resolved[i].sourceKey,
                              preview.resolved[i].sourceId)
        /\ ResolvesExactFirst(preview.nodes, preview.resolved[i].targetKey,
                              preview.resolved[i].targetId)

-----------------------------------------------------------------------------
(* Drags, resizes and redistribution: SpecDrag.  Where relaxation and the    *)
(* pointer take the nodes, and the pin fx, fy of a dragged node, are not     *)
(* modelled.                                                                 *)

\* dragstarted, lines 492-496; event.active counts the other gestures
DragStarted(id) ==
    /\ id \in {n.id : n \in Range(nodes)}
    /\ id \notin dragging
    /\ dragging' = dragging \cup {id}
    /\ simulation' = IF dragging = {}
                     THEN [simulation EXCEPT !.alphaTarget = DragAlphaTarget]
                     ELSE simulation
    /\ lastOp' = "dragstarted"
    /\ UNCHANGED <<storeVars, runVars, viewVars, fitted, timeouts, lastEffects>>

\* dragged, lines 498-501
Dragged(id) ==
    /\ id \in dragging
    /\ lastOp' = "dragged"
    /\ fitted' = fitted \ {"adjustViewBox", "fitView", "resetZoom"}
    /\ UNCHANGED <<storeVars, runVars, viewVars, simVars>>

\* dragended, lines 503-507
DragEnded(id) ==
    /\ id \in dragging
    /\ dragging' = dragging \ {id}
    /\ simulation' = IF dragging = {id}
                     THEN [simulation EXCEPT !.alphaTarget = RestAlphaTarget]
                     ELSE simulation
    /\ lastOp' = "dragended"
    /\ UNCHANGED <<storeVars, runVars, viewVars, fitted, timeouts, lastEffects>>

\* the sizes the window gives the container
ResizedContainers == {DefaultContainer, [width |-> 800, height |-> 600]}

\* the resize listener, lines 1356-1369: new centre and collision forces,
\* alpha(0.2).restart()
Resize(cont) ==
    /\ cont # container
    /\ container' = cont
    /\ lastOp' = "resize"
    /\ fitted' = fitted \ {"adjustViewBox", "fitView", "resetZoom"}
    /\ UNCHANGED <<storeVars, runVars, viewBox, zoomTransform, preview, simVars>>

\* redistributeNodes, lines 1158-1179
RedistributeNodes ==
    /\ Len(nodes) # 0
    /\ nodes' = [i \in 1..Len(nodes) |->
                    [nodes[i] EXCEPT !.x = CreatePositionedNode(i - 1, Len(nodes)).x,
                                     !.y = CreatePositionedNode(i - 1, Len(nodes)).y]]
    /\ simulation' = [simulation EXCEPT !.nodes = [i \in 1..Len(nodes) |-> nodes[i].id]]
    /\ timeouts' = timeouts \cup {AdjustViewBoxTimeout}
    /\ lastOp' = "redistribute"
    /\ fitted' = fitted \ {"adjustViewBox", "fitView", "resetZoom"}
    /\ UNCHANGED <<links, initialEntity, nodeEls, linkEls, lastData, lastMerge, lastSampled,
                   overlay, viewVars, lastEffects, dragging, expansionSequence,
                   randomOffset, runVars>>

NextDrag ==
    \/ \E data \in RelaxUpdates : GraphUpdate(data)
    \/ \E id \in Ids : DragStarted(id)
    \/ \E id \in Ids : Dragged(id)
    \/ \E id \in Ids : DragEnded(id)
    \/ \E cont \in ResizedContainers : Resize(cont)
    \/ RedistributeNodes
    \/ StartClick
    \/ BuildingComplete

SpecDrag == Init /\ [][NextDrag]_vars

\* C21 (relaxation stays live): whatever updates, drags, resizes and
\* redistribute requests have run, the target energy of the relaxation is
\* strictly greater than zero.
C21_RelaxationLive ==
    simulation.alphaTarget[1] > 0

-----------------------------------------------------------------------------
(* Coordinates that are not finite: SpecNonFinite.  The viewer stores the    *)
(* coordinates a record carries.  The relaxation of the preview belongs to  *)
(* d3: a tick of it may leave a node on any position, one that is not       *)
(* finite included.                                                         *)

\* node records with no position, with a position, and with x: 1e999
NonFiniteNodeRecords ==
    {NodeRecord(<<"a">>, <<"a">>),
     [NodeRecord(<<"a">>, <<"a">>) EXCEPT !.x = <<Infinity>>, !.y = <<200>>],
     [NodeRecord(<<"d">>, <<"d">>) EXCEPT !.x = <<300>>, !.y = <<200>>]}

NonFiniteUpdates == NodesOnly(SeqsUpTo(NonFiniteNodeRecords, MaxBatch) \ {<<>>})

\* the entities of the preview
NonFiniteEntities ==
    {<<[name |-> <<"a">>, id |-> Undef], [name |-> <<"d">>, id |-> Undef]>>}

\* where a tick of the preview's simulation leaves a node; <<>> is a
\* coordinate that is not finite
PreviewPositions ==
    {<<<<100>>, <<100>>>>, <<<<>>, <<100>>>>, <<<<500>>, <<>>>>}

\* the tick handler of the preview's simulation has moved the nodes
PreviewTick(ps) ==
    /\ Len(ps) = Len(preview.nodes)
    /\ preview' = [preview EXCEPT !.nodes = [i \in 1..Len(ps) |->
                                     [preview.nodes[i] EXCEPT !.x = ps[i][1],
                                                              !.y = ps[i][2]]]]
    /\ preview' # preview
    /\ lastOp' = "previewTick"
    /\ fitted' = fitted \ {"fitGraphToView"}
    /\ UNCHANGED <<storeVars, runVars, container, viewBox, zoomTransform, simVars>>

NextNonFinite ==
    \/ \E data \in NonFiniteUpdates : GraphUpdate(data)
    \/ Tick
    \/ TimeoutFires
    \/ \E entities \in NonFiniteEntities :
           DrawGraph(entities, <<>>, PreviewDefaultWidth,
                     [i \in 1..Len(entities) |-> <<0, 0>>])
    \/ \E ps \in SeqsUpTo(PreviewPositions, MaxBatch) : PreviewTick(ps)
    \/ FitGraphToViewCall

SpecNonFinite == Init /\ [][NextNonFinite]_vars

\* a stored node of the viewer with finite x and y
HasFiniteNode(ns) ==
    \E i \in 1..Len(ns) : IsFinite(Num(ns[i].x)) /\ IsFinite(Num(ns[i].y))

\* a node of the preview with finite x and y
HasFinitePreviewNode(pnodes) ==
    \E i \in 1..Len(pnodes) : pnodes[i].x # <<>> /\ pnodes[i].y # <<>>

\* C22 (non-finite coordinates never reach the bounds computation): when a
\* node has finite coordinates, the viewBox that adjustViewBox has set and
\* the transform that fitGraphToView has applied hold finite numbers only.
C22_FitsFinite ==
    /\ ("adjustViewBox" \in fitted /\ HasFiniteNode(nodes)) =>
           /\ IsFinite(viewBox.x)
           /\ IsFinite(viewBox.y)
           /\ IsFinite(viewBox.width)
           /\ IsFinite(viewBox.height)
    /\ ("fitGraphToView" \in fitted /\ HasFinitePreviewNode(preview.nodes)) =>
           /\ IsFinite(preview.transform.k)
           /\ IsFinite(preview.transform.x)
           /\ IsFinite(preview.transform.y)

-----------------------------------------------------------------------------
(* The expansion sequence shown: SpecSequence *)

MaxSequence == 3

\* entries of expansion_nodes: an id under two names, a name under two ids
SequenceEntries ==
    {[id |-> <<"a">>, name |-> <<"d">>], [id |-> <<"a">>, name |-> <<"d", "m">>],
     [id |-> <<"d">>, name |-> <<"d">>]}

\* the node records of the batches
SequenceNodeRecords ==
    {NodeRecord(<<"a">>, <<"d">>), NodeRecord(<<"d">>, <<"d", "m">>)}

\* graph_update payloads: one node record at most, and an expansion_info
\* with up to MaxSequence expansion nodes
SequenceUpdates ==
    {[d EXCEPT !.expansion_info = <<[expansion_nodes |-> ens, current_node |-> <<>>]>>] :
        d \in NodesOnly(SeqsUpTo(SequenceNodeRecords, 1)),
        ens \in SeqsUpTo(SequenceEntries, MaxSequence)}

NextSequence ==
    \/ \E data \in SequenceUpdates : GraphUpdateLogged(data)
    \/ StartClick
    \/ BuildingComplete
    \/ \E e \in Entities : EditInitialEntity(e)

SpecSequence == Init /\ [][NextSequence]_vars

\* the place of the first entry of expansion_nodes with the id and the name
\* of u, 0 when there is none
FirstPlace(expansion_nodes, u) ==
    FirstIndex({k \in 1..Len(expansion_nodes) :
                   expansion_nodes[k].id = u.id /\ expansion_nodes[k].name = u.name})

\* C23 (expansion sequence de-duplication): the sequence that an update
\* with an expansion_info shows has no two entries with the same id and no
\* two with the same name, its producer entries stand in the order the
\* producer gave them, and its first entry is the initial node of the store.
C23_SequenceDeduplicated ==
    [][(lastOp' = "graph_update" /\ lastData'.expansion_info # <<>>) =>
          LET seq == expansionSequence'
              ens == lastData'.expansion_info[1].expansion_nodes
              healed == EnsureInitialNodeExpansionStatus(nodes, initialEntity)
              init == FindInitialNode(healed, initialEntity)
          IN  /\ \A i, j \in 1..Len(seq) :
                     i < j => seq[i].id # seq[j].id /\ seq[i].name # seq[j].name
              /\ \A i, j \in 1..Len(seq) :
                     (i < j /\ seq[i].order = NoNum) =>
                         /\ seq[j].order = NoNum
                         /\ FirstPlace(ens, seq[i]) # 0
                         /\ FirstPlace(ens, seq[i]) < FirstPlace(ens, seq[j])
              /\ (Len(ens) > 0 /\ init # 0) =>
                     seq[1] = [id |-> healed[init].id, name |-> healed[init].name,
                               order |-> <<-1>>]]_vars

\* an update showed a sequence that starts with the initial node and from
\* which a repeated entry was left out
C23_Witness ==
    /\ lastOp = "graph_update"
    /\ lastData.expansion_info # <<>>
    /\ Len(expansionSequence) >= 2
    /\ expansionSequence[1].order = <<-1>>
    /\ Len(expansionSequence) <= Len(lastData.expansion_info[1].expansion_nodes)

-----------------------------------------------------------------------------
(* Initial placement: SpecPlace.  The producer delivers its nodes one by    *)
(* one, each under a new id; redistribution is requested after them.  The   *)
(* container keeps the size it starts with.                                 *)

MaxPlaced == 28

\* the sizes of the container: none yet, the fallback size, a larger one
PlaceContainers ==
    {[width |-> 0, height |-> 0], DefaultContainer, [width |-> 2000, height |-> 1400]}

\* what (Math.random() - 0.5) * 40 gives, twice, in whole pixels
RandomOffsets == {<<0, 0>>, <<-20, 19>>}

\* the id of the k-th node of the producer
PlaceId(k) == <<Digit(k \div 10), Digit(k % 10)>>

InitPlace ==
    /\ nodes = <<>>
    /\ links = <<>>
    /\ initialEntity = <<>>
    /\ nodeEls = <<>>
    /\ linkEls = <<>>
    /\ lastOp = "init"
    /\ lastData = NoData
    /\ lastMerge = "none"
    /\ lastSampled = NoSampled
    /\ overlay = "none"
    /\ container \in PlaceContainers
    /\ viewBox = InitialViewBox(container)
    /\ zoomTransform = ZoomIdentity
    /\ preview = NoPreview
    /\ fitted = {}
    /\ simulation = NewSimulation
    /\ timeouts = {}
    /\ lastEffects = {}
    /\ dragging = {}
    /\ expansionSequence = <<>>
    /\ randomOffset \in RandomOffsets
    /\ isBuilding = FALSE
    /\ disabled = {"stopBtn"}
    /\ run = NoRun

\* socket.on('graph_update') for the next node of the producer
PlaceGraphUpdate ==
    /\ lastOp # "redistribute"
    /\ UpdateGraphWithin(
           [nodes |-> <<NodeRecord(PlaceId(Len(nodes)), PlaceId(Len(nodes)))>>,
            hasNodes |-> TRUE, links |-> <<>>, hasLinks |-> FALSE,
            expansion_info |-> <<>>],
           MaxPlaced, MaxLinks)
    /\ lastData' = NoData
    /\ UNCHANGED runVars

\* Math.random has other values in store for the next placement
RandomDrawn(offset) ==
    /\ lastOp # "redistribute"
    /\ offset # randomOffset
    /\ randomOffset' = offset
    /\ lastOp' = "random"
    /\ UNCHANGED <<nodes, links, initialEntity, nodeEls, linkEls, lastData, lastMerge,
                   lastSampled, overlay, expansionSequence, viewVars, fitted, simVars,
                   runVars>>

NextPlace ==
    \/ PlaceGraphUpdate
    \/ \E offset \in RandomOffsets : RandomDrawn(offset)
    \/ RedistributeNodes

SpecPlace == InitPlace /\ [][NextPlace]_vars

\* C24 (initial placement never makes two centers coincide): the positions
\* that createPositionedNode gives the nodes of a redistribution are
\* pairwise distinct, and no node created by an incremental update is put
\* where an earlier created node was put.
C24_PlacementsDistinct ==
    \A i, j \in 1..Len(nodes) :
        i < j => <<nodes[i].x, nodes[i].y>> # <<nodes[j].x, nodes[j].y>>

-----------------------------------------------------------------------------
(* One current node per update: SpecCurrent *)

\* expansion_info objects that name one current node among their expansion
\* nodes
CurrentInfos ==
    {[expansion_nodes |-> ens, current_node |-> <<[id |-> c]>>] :
        ens \in {<<[id |-> <<"a">>, name |-> <<"d">>]>>,
                 <<[id |-> <<"a">>, name |-> <<"d">>],
                   [id |-> <<"d">>, name |-> <<"d", "m">>]>>},
        c \in Ids}

\* batches that hold each id once
DistinctIds(recs) == \A i, j \in 1..Len(recs) : recs[i].id = recs[j].id => i = j

\* graph_update payloads whose node records carry no expansion_status, each
\* under an id of its own, and whose expansion_info names one current node
CurrentUpdates ==
    {[d EXCEPT !.expansion_info = <<info>>] :
        d \in {b \in NodesOnly(SeqsUpTo(SequenceNodeRecords, MaxBatch)) :
                  DistinctIds(b.nodes)},
        info \in {i \in CurrentInfos :
                     i.current_node[1].id \in {n.id : n \in Range(i.expansion_nodes)}}}

NextCurrent ==
    \/ \E data \in CurrentUpdates : GraphUpdateLogged(data)
    \/ StartClick
    \/ BuildingComplete
    \/ \E e \in Entities : EditInitialEntity(e)

SpecCurrent == Init /\ [][NextCurrent]_vars

\* C25 (at most one current node): after incremental updates whose
\* expansion_info names one current node and whose records carry no status
\* of their own, at most one stored node has expansion_status 'current'.
C25_OneCurrent ==
    \A i, j \in 1..Len(nodes) :
        nodes[i].expansion_status = Current /\ nodes[j].expansion_status = Current
            => i = j

-----------------------------------------------------------------------------
(* The producer's seed against the promoted one: SpecOrder *)

\* node records of a producer for which node d is the seed: order 0 is
\* carried by records of d only, node a comes without an order or as the
\* first expansion
OrderNodeRecords ==
    {NodeRecord(<<"a">>, <<"d">>),
     [NodeRecord(<<"a">>, <<"d">>) EXCEPT !.expansion_order = <<1>>],
     NodeRecord(<<"d">>, <<"d", "m">>),
     [NodeRecord(<<"d">>, <<"d", "m">>) EXCEPT !.expansion_order = <<0>>]}

\* graph_update payloads: batches that hold each id once
OrderUpdates ==
    {d \in NodesOnly(SeqsUpTo(OrderNodeRecords, MaxBatch)) : DistinctIds(d.nodes)}

NextOrder ==
    \/ \E data \in OrderUpdates : GraphUpdateLogged(data)
    \/ StartClick
    \/ BuildingComplete
    \/ \E e \in Entities : EditInitialEntity(e)

SpecOrder == Init /\ [][NextOrder]_vars

\* C26 (unique seed): when the producer marks at most one node with
\* expansion_order 0, at most one stored node has expansion_order 0, also
\* after the viewer promoted a node of its own choice before.
C26_UniqueSeed ==
    \A i, j \in 1..Len(nodes) :
        nodes[i].expansion_order = <<0>> /\ nodes[j].expansion_order = <<0>> => i = j

-----------------------------------------------------------------------------
(* Construction runs, their events and their responses: SpecRuns *)

\* events in flight on the socket at a time
MaxInFlight == 2

\* the graph_update payloads of a run: one node each
RunUpdates ==
    NodesOnly({<<NodeRecord(<<"a">>, <<"d">>)>>, <<NodeRecord(<<"d">>, <<"d", "m">>)>>})

\* makes what is in flight belong to an earlier run: the events on the
\* socket and the responses of the requests the server has answered
Outdated(r) ==
    [r EXCEPT !.socket = [i \in 1..Len(r.socket) |-> [r.socket[i] EXCEPT !.stale = TRUE]],
              !.http = {IF q.state = "answered" THEN [q EXCEPT !.stale = TRUE] ELSE q :
                           q \in r.http}]

\* startBtn click, line 1308: the request goes out; what is in flight by
\* then stems from earlier runs
StartClickSent ==
    /\ StartBuilding
    /\ run' = [Outdated(run) EXCEPT
                  !.http = @ \cup {[kind |-> "start", state |-> "sent", stale |-> FALSE]},
                  !.ended = FALSE,
                  !.staleMerged = FALSE]

\* the server takes the start request up: the run is live; or it answers
\* with an error
ServerStarts(ok) ==
    /\ \E q \in run.http :
           /\ q.kind = "start" /\ q.state = "sent"
           /\ run' = [run EXCEPT
                         !.http = (@ \ {q}) \cup
                                  {[kind |-> IF ok THEN "start" ELSE "start_error",
                                    state |-> "answered", stale |-> FALSE]},
                         !.live = IF ok THEN TRUE ELSE @]
    /\ UNCHANGED <<nodes, links, initialEntity, nodeEls, linkEls, lastOp, lastData, lastMerge,
                   lastSampled, overlay, viewVars, fitted, simVars, expansionSequence,
                   randomOffset, isBuilding, disabled>>

\* the .then of line 1318 and the .catch of line 1328
StartResponse ==
    /\ \E q \in run.http :
           /\ q.kind \in {"start", "start_error"} /\ q.state = "answered"
           /\ IF q.kind = "start_error"
              THEN NotBuilding
              ELSE UNCHANGED <<isBuilding, disabled>>
           /\ run' = [run EXCEPT !.http = @ \ {q},
                                 !.ended = @ \/ (q.kind = "start_error" /\ ~q.stale)]
    /\ lastOp' = "start_response"
    /\ UNCHANGED <<nodes, links, initialEntity, nodeEls, linkEls, lastData, lastMerge,
                   lastSampled, overlay, viewVars, fitted, simVars, expansionSequence,
                   randomOffset>>

\* stopBtn click, lines 1338-1341: enabled buttons only take clicks
StopClick ==
    /\ "stopBtn" \notin disabled
    /\ run' = [run EXCEPT
                  !.http = @ \cup {[kind |-> "stop", state |-> "sent", stale |-> FALSE]}]
    /\ lastOp' = "stop"
    /\ UNCHANGED <<nodes, links, initialEntity, nodeEls, linkEls, lastData, lastMerge,
                   lastSampled, overlay, viewVars, fitted, simVars, expansionSequence,
                   randomOffset, isBuilding, disabled>>

\* the server takes the stop request up: the run it works on is stopped
ServerStops ==
    /\ \E q \in run.http :
           /\ q.kind = "stop" /\ q.state = "sent"
           /\ run' = [run EXCEPT
                         !.http = (@ \ {q}) \cup
                                  {[kind |-> "stop", state |-> "answered", stale |-> FALSE]},
                         !.live = FALSE,
                         !.ended = TRUE]
    /\ UNCHANGED <<nodes, links, initialEntity, nodeEls, linkEls, lastOp, lastData, lastMerge,
                   lastSampled, overlay, viewVars, fitted, simVars, expansionSequence,
                   randomOffset, isBuilding, disabled>>

\* the .then of line 1343
StopResponse ==
    /\ \E q \in run.http :
           /\ q.kind = "stop" /\ q.state = "answered"
           /\ run' = [run EXCEPT !.http = @ \ {q}]
    /\ NotBuilding
    /\ lastOp' = "stop_response"
    /\ UNCHANGED <<nodes, links, initialEntity, nodeEls, linkEls, lastData, lastMerge,
                   lastSampled, overlay, viewVars, fitted, simVars, expansionSequence,
                   randomOffset>>

\* the live run emits an event; building_complete and error end it
ServerEmits(type, data) ==
    /\ run.live
    /\ Len(run.socket) < MaxInFlight
    /\ run' = [run EXCEPT
                  !.socket = Append(@, [type |-> type, data |-> data, stale |-> FALSE]),
                  !.live = type = "graph_update",
                  !.ended = @ \/ type # "graph_update"]
    /\ UNCHANGED <<nodes, links, initialEntity, nodeEls, linkEls, lastOp, lastData, lastMerge,
                   lastSampled, overlay, viewVars, fitted, simVars, expansionSequence,
                   randomOffset, isBuilding, disabled>>

\* the socket delivers its first event to the handler of its type
SocketDelivers ==
    /\ run.socket # <<>>
    /\ LET event == Head(run.socket)
       IN  /\ run' = [run EXCEPT
                         !.socket = Tail(@),
                         !.staleMerged = @ \/ (event.type = "graph_update" /\ event.stale)]
           /\ IF event.type = "graph_update"
              THEN /\ UpdateGraph(event.data)
                   /\ lastData' = NoData
                   /\ UNCHANGED <<isBuilding, disabled>>
              ELSE BuildingCompleteHandler

NextRuns ==
    \/ StartClickSent
    \/ \E ok \in BOOLEAN : ServerStarts(ok)
    \/ StartResponse
    \/ StopClick
    \/ ServerStops
    \/ StopResponse
    \/ \E data \in RunUpdates : ServerEmits("graph_update", data)
    \/ \E type \in {"building_complete", "error"} : ServerEmits(type, NoData)
    \/ SocketDelivers

SpecRuns == Init /\ [][NextRuns]_vars

\* C27 (run isolation): after a start click the store only holds what the
\* graph_update events of the run it started delivered; an event of an
\* earlier run that arrives after the clear is not merged.
C27_RunIsolated == ~run.staleMerged

\* C28 (build state): isBuilding is true, the start button disabled and the
\* stop button enabled, whenever the run started last has neither completed,
\* failed nor been stopped.
C28_BuildingWhileRunning ==
    ~run.ended => isBuilding /\ disabled = {"startBtn"}

-----------------------------------------------------------------------------
(* Links that arrive before their nodes: SpecBind *)

NextBind ==
    \/ \E data \in GraphUpdates : GraphUpdateLogged(data)
    \/ StartClick
    \/ BuildingComplete

SpecBind == Init /\ [][NextBind]_vars

\* the stored links both of whose ends are ids of stored nodes
BoundLinks ==
    SelectSeq(links, LAMBDA l : /\ \E n \in Range(nodes) : n.id = l.source
                                /\ \E n \in Range(nodes) : n.id = l.target)

\* C29 (late binding of dangling links): a link of an incremental update is
\* stored whether or not its end nodes are; what is drawn, and what the
\* simulation is given, are the stored links whose two ends are stored
\* nodes, after every update: a link is drawn from the update on that stores
\* its second end.
C29_LateBinding ==
    /\ lastOp = "graph_update" /\ lastData.hasLinks =>
           \A k \in 1..Len(lastData.links) :
               \E l \in Range(links) :
                   /\ l.source = lastData.links[k].source
                   /\ l.target = lastData.links[k].target
    /\ [i \in 1..Len(linkEls) |-> linkEls[i].id] =
           [i \in 1..Len(BoundLinks) |-> BoundLinks[i].id]
    /\ lastOp = "graph_update" =>
           simulation.links = [i \in 1..Len(BoundLinks) |-> BoundLinks[i].id]

\* a graph_update of new nodes after which a link is drawn that ends at one
\* of them and that was stored, undrawn, before
C29_Witness ==
    /\ lastOp = "graph_update"
    /\ lastData.hasNodes /\ ~lastData.hasLinks
    /\ lastMerge = "none"
    /\ \E e \in Range(linkEls), r \in Range(lastData.nodes) :
           /\ e.source # e.target
           /\ r.id \in {e.source, e.target}

-----------------------------------------------------------------------------
(* Styles of the render and styles of the overlay *)

\* the two styles the overlay gives the element of node d: that of a
\* sampled node and that of any other node
OverlayNodeEls(el, d) ==
    {HighlightNodeEl(ResetNodeEl(el, d), d, {d.id}),
     HighlightNodeEl(ResetNodeEl(el, d), d, {})}

\* C30 (no mixed highlight state): after any sequence of graph_update and
\* sampled_graph_update events every rendered node has either the baseline
\* style of its expansion status throughout (opacity 1, no filter, not marked
\* sampled) or a style of the overlay throughout.
C30_NoMixedStyle ==
    \A i \in 1..Len(nodeEls) :
        \/ Effective(nodeEls[i]) = Effective(BaselineNodeEls[i])
        \/ nodeEls[i] \in OverlayNodeEls(nodeEls[i], nodes[i])

====
